---- MODULE Spec2Model ----
(***************************************************************************)
(* Model of the lottery server of tp0-base: the per-connection handler     *)
(* processes of Server (server.py) running against the shared              *)
(* LotteryMonitor (lottery_monitor.py).  Every monitor method is a         *)
(* critical section of the monitor lock; a handler is the sequence of      *)
(* monitor calls and socket sends that send_message_response makes.        *)
(***************************************************************************)
EXTENDS Integers, Sequences, FiniteSets, TLC

\* ---------------------------------------------------------------------
\* Bounds of the model
\* ---------------------------------------------------------------------
MaxSessions == 3
MaxMsgs == 5
MaxBatches == 2
MaxWire == 4
\* lengths read from the wire are told apart below this value only
MaxLength == 1073741824
\* messages and batches received in all when a session that terminated is
\* followed by the sessions of every agency
MaxOrphanMsgs == 6
MaxOrphanBatches == 3

Sessions == 1..MaxSessions

\* ---------------------------------------------------------------------
\* Program constants
\* ---------------------------------------------------------------------
STOP == 0
CONTINUE == 1
CONTINUE_SAFE_TO_END == 2

AGENCY_SENDING_BETS == 10
AGENCY_READY_FOR_LOTTERY == 20
AGENCY_WAITING_FOR_LOTTERY == 30
AGENCY_GOT_LOTTERY_WINNERS == 40

FAILURE_UNKNOWN_MESSAGE == 1
FAILURE_COULD_NOT_PROCESS_BET == 2

MSG_TYPE_REGISTER_BETS == 1
MSG_TYPE_REGISTER_BET_OK == 2
MSG_TYPE_REGISTER_BET_FAILED == 3
MSG_TYPE_ACK == 4

SIZEOF_UINT16 == 2
SIZEOF_UINT32 == 4
SIZEOF_INT64 == 8
SIZEOF_UINT64 == 8

\* Server._max_agencies (number_of_agencies of the configuration)
max_agencies == 2

\* the winning number of the domain predicate has_won
LOTTERY_WINNER_NUMBER == 7574

\* Python's None, as a value outside every integer domain used here
None == -1

\* no process holds the monitor lock
Unlocked == 0

\* Protocol.NULL_ADDR
NULL_ADDR == <<"", 0>>

\* ---------------------------------------------------------------------
\* Inputs: peer addresses and bets
\* ---------------------------------------------------------------------
\* (host, port) of the peer of connection s: every connection comes from its
\* own host, and the connections s and s + 2 use the same port number
PeerAddr(s) == <<s, 5001 + (s % 2)>>

\* StandardBet as decoded from the wire (fields the server reads)
StandardBet(agency, dni, number) == [agency |-> agency, dni |-> dni, number |-> number]

BetA0 == StandardBet(0, 100, LOTTERY_WINNER_NUMBER)
BetA1 == StandardBet(1, 111, 7777)
BetA1w == StandardBet(1, 333, LOTTERY_WINNER_NUMBER)
BetA2 == StandardBet(2, 222, LOTTERY_WINNER_NUMBER)

\* the batches a client of Spec sends: one of agency 0, one of agency 1
Batches == { <<BetA0>>, <<BetA1, BetA1w>> }

\* str(n) of a non-negative integer: its decimal digits
RECURSIVE str(_)
str(n) == IF n < 10 THEN <<n>> ELSE Append(str(n \div 10), n % 10)

\* int(s) of a decimal digit string
RECURSIVE int(_)
int(s) == IF Len(s) = 0 THEN 0
          ELSE int(SubSeq(s, 1, Len(s) - 1)) * 10 + s[Len(s)]

\* StandardBet.to_utility_bet: the domain Bet keeps its numbers as strings
to_utility_bet(b) ==
  [agency |-> str(b.agency), document |-> str(b.dni), number |-> str(b.number)]

\* has_won of the domain
has_won(bet) == int(bet.number) = LOTTERY_WINNER_NUMBER

\* messages a client sends
MsgRegisterBets(bets) == [type |-> "RegisterBets", bets |-> bets]
MsgAllBetsSent == [type |-> "AllBetsSent", bets |-> <<>>]
MsgRequestWinners == [type |-> "RequestWinners", bets |-> <<>>]
MsgAck == [type |-> "Ack", bets |-> <<>>]
\* a frame of a kind the decoder knows and send_message_response has no
\* branch for (a RegisterBetsOk sent by a client)
MsgOther == [type |-> "RegisterBetsOk", bets |-> <<>>]
NoMsg == [type |-> "none", bets |-> <<>>]

ClientMessages ==
  { MsgRegisterBets(bs) : bs \in Batches } \cup {MsgAllBetsSent, MsgRequestWinners}

\* messages the server sends
MsgRegisterBetOk == [type |-> "RegisterBetsOk", error_code |-> 0, winners |-> <<>>]
MsgRegisterBetFailed(code) == [type |-> "RegisterBetsFailed", error_code |-> code, winners |-> <<>>]
MsgInformWinners(w) == [type |-> "InformWinners", error_code |-> 0, winners |-> w]

\* ---------------------------------------------------------------------
\* Python dict
\* ---------------------------------------------------------------------
DictGet(d, k, default) == IF k \in DOMAIN d THEN d[k] ELSE default
DictSet(d, k, v) == [x \in (DOMAIN d) \cup {k} |-> IF x = k THEN v ELSE d[x]]
EmptyDict == [x \in {} |-> None]

\* ---------------------------------------------------------------------
\* State
\* ---------------------------------------------------------------------
VARIABLES
  \* handler processes (one per accepted connection)
  pc,                     \* position of the handler process
  peer,                   \* addr of the accepted connection
  msg,                    \* the message being handled
  agencyId,               \* local of send_message_response / __send_winners_to_client
  current_state,          \* local of __send_winners_to_client
  dni_winners,            \* local of __send_winners_to_client
  storing_success,        \* local of __process_batch_bet_registration
  keep_handling_client,   \* loop variable of _handle_client_process
  \* LotteryMonitor
  readiness_status,       \* port -> state
  agency_id_by_port,      \* port -> agencyId
  winners,                \* list of (agency, dni)
  winners_per_agency,     \* agency -> list of dni
  lottery_executed,
  lottery_complete_event,
  lock,                   \* holder of LotteryMonitor._lock
  \* bet storage of common.utils
  bets_file,
  \* observations
  sent,                   \* messages written to each connection, in order
  script,                 \* how far the messages read from a connection follow
                          \* "RegisterBets one or more times, then AllBetsSent"
  requested,              \* connections a RequestWinners was read from
  own_agency,             \* agency id the session itself bound by its RegisterBets
  all_bets_sent,          \* peers whose AllBetsSent was received
  acked,                  \* positions of bets_file acknowledged with RegisterBetsOk
  stored_at,              \* positions of bets_file written by the batch being handled
  scanned,                \* number of bets load_bets returned to the lottery
  exec_true,              \* execute_lottery calls that returned True
  exec_false,             \* execute_lottery calls that returned False
  nmsgs,                  \* messages received so far (bounded by MaxMsgs)
  nbatches,               \* RegisterBets received so far (bounded by MaxBatches)
  last_read,              \* kind of the last frame read from each connection
  batch_log,              \* the RegisterBets read from each connection, in order,
                          \* each with the outcome of its store
  \* one socket read on its own (Socket.__receive_all, Socket.__decode_message)
  wire,                   \* the bytes the peer wrote before it closed
  pos,                    \* how many of them recv() has returned
  n_bytes,                \* argument of __receive_all
  data,                   \* accumulator of __receive_all
  io_pc,                  \* position of the reader
  io_ret,                 \* caller of __receive_all
  header,                 \* local of __decode_message
  encoded,                \* the message whose encoding is on the wire
  decoded,                \* what __decode_message returned or raised
  stream,                 \* the messages whose encodings are on the wire, back
                          \* to back, when there are several
  received,               \* the messages Socket.receive_message has returned to
                          \* its caller so far
  \* the main process (main.py, Server.run, Server.stop)
  main_pc,                \* position of main()
  running,                \* Server._running
  stopped,                \* Server._stopped
  listener,               \* the listening socket
  sigterm,                \* handler processes with a SIGTERM not yet delivered
  startup_error,          \* what failed before the loop, if anything
  exit_code,              \* exit status of the process once main() has returned
  waiting_at_stop         \* observation: the sessions that were waiting for the
                          \* lottery when Server.stop ran

sessVars == <<pc, peer, msg, agencyId, current_state, dni_winners, storing_success,
              keep_handling_client>>
monVars == <<readiness_status, agency_id_by_port, winners, winners_per_agency,
             lottery_executed, lottery_complete_event, lock>>
obsVars == <<sent, script, requested, own_agency, all_bets_sent, acked, stored_at, scanned,
             exec_true, exec_false, nmsgs, nbatches, last_read, batch_log>>
ioVars == <<wire, pos, n_bytes, data, io_pc, io_ret, header, encoded, decoded, stream,
           received>>
mainVars == <<main_pc, running, stopped, listener, sigterm, startup_error, exit_code,
              waiting_at_stop>>
vars == <<sessVars, monVars, bets_file, obsVars, ioVars, mainVars>>

port(s) == peer[s][2]

\* no socket read on its own is going on
NoMessage == [type |-> "none"]

InitIo ==
  /\ wire = <<>>
  /\ pos = 0
  /\ n_bytes = 0
  /\ data = <<>>
  /\ io_pc = "idle"
  /\ io_ret = "none"
  /\ header = <<>>
  /\ encoded = NoMessage
  /\ decoded = NoMessage
  /\ stream = <<>>
  /\ received = <<>>

\* the server has been constructed and no connection accepted
InitServer ==
  /\ pc = [s \in Sessions |-> "idle"]
  /\ peer = [s \in Sessions |-> NULL_ADDR]
  /\ msg = [s \in Sessions |-> NoMsg]
  /\ agencyId = [s \in Sessions |-> None]
  /\ current_state = [s \in Sessions |-> None]
  /\ dni_winners = [s \in Sessions |-> <<>>]
  /\ storing_success = [s \in Sessions |-> FALSE]
  /\ keep_handling_client = [s \in Sessions |-> CONTINUE]
  /\ readiness_status = EmptyDict
  /\ agency_id_by_port = EmptyDict
  /\ winners = <<>>
  /\ winners_per_agency = EmptyDict
  /\ lottery_executed = FALSE
  /\ lottery_complete_event = FALSE
  /\ lock = Unlocked
  /\ bets_file = <<>>
  /\ sent = [s \in Sessions |-> <<>>]
  /\ script = [s \in Sessions |-> "start"]
  /\ requested = {}
  /\ own_agency = [s \in Sessions |-> None]
  /\ all_bets_sent = {}
  /\ acked = {}
  /\ stored_at = [s \in Sessions |-> {}]
  /\ scanned = None
  /\ exec_true = 0
  /\ exec_false = 0
  /\ nmsgs = 0
  /\ nbatches = 0
  /\ last_read = [s \in Sessions |-> "none"]
  /\ batch_log = [s \in Sessions |-> <<>>]

\* main() has constructed the server and Server.run has entered its loop
InitMain ==
  /\ main_pc = "accept"
  /\ running = TRUE
  /\ stopped = FALSE
  /\ listener = "listening"
  /\ sigterm = {}
  /\ startup_error = "none"
  /\ exit_code = None
  /\ waiting_at_stop = {}

Init == InitServer /\ InitIo /\ InitMain

\* ---------------------------------------------------------------------
\* LotteryMonitor: reads made inside one critical section
\* ---------------------------------------------------------------------
\* LotteryMonitor.get_readiness
get_readiness(p) == DictGet(readiness_status, p, None)

\* LotteryMonitor.get_agency_id
get_agency_id(p) == DictGet(agency_id_by_port, p, None)

\* LotteryMonitor.get_winners_for_agency
get_winners_for_agency(agency) == DictGet(winners_per_agency, agency, <<>>)

\* LotteryMonitor.has_lottery_occurred
has_lottery_occurred == lottery_executed

\* all_agencies_ready that waits for one endpoint more than expected
all_agencies_ready_strict(n_agencies, sending_bets_state) ==
  IF Cardinality(DOMAIN readiness_status) <= n_agencies THEN FALSE
  ELSE \A p \in DOMAIN readiness_status : readiness_status[p] # sending_bets_state

\* LotteryMonitor.all_agencies_ready
all_agencies_ready(n_agencies, sending_bets_state) ==
  IF Cardinality(DOMAIN readiness_status) < n_agencies THEN FALSE
  ELSE \A p \in DOMAIN readiness_status : readiness_status[p] # sending_bets_state

\* a loop that puts each new winner in front of the winners of its agency
RECURSIVE ComputeWinners_prepending(_, _, _, _)
ComputeWinners_prepending(bets, i, w, wpa) ==
  IF i > Len(bets) THEN [winners |-> w, winners_per_agency |-> wpa]
  ELSE IF has_won(bets[i])
       THEN LET agency == int(bets[i].agency)
                dni == int(bets[i].document)
            IN ComputeWinners_prepending(bets, i + 1, Append(w, <<agency, dni>>),
                                         DictSet(wpa, agency, <<dni>> \o DictGet(wpa, agency, <<>>)))
       ELSE ComputeWinners_prepending(bets, i + 1, w, wpa)

\* the loop of execute_lottery over the loaded bets, from bet i on
RECURSIVE ComputeWinners(_, _, _, _)
ComputeWinners(bets, i, w, wpa) ==
  IF i > Len(bets) THEN [winners |-> w, winners_per_agency |-> wpa]
  ELSE IF has_won(bets[i])
       THEN LET agency == int(bets[i].agency)
                dni == int(bets[i].document)
            IN ComputeWinners(bets, i + 1, Append(w, <<agency, dni>>),
                              DictSet(wpa, agency, DictGet(wpa, agency, <<>>) \o <<dni>>))
       ELSE ComputeWinners(bets, i + 1, w, wpa)

\* truth value of "if agencyId:" in __send_winners_to_client
Truthy(a) == a # None /\ a # 0

\* ---------------------------------------------------------------------
\* Handler process: control
\* ---------------------------------------------------------------------
\* send_message_response returns to the loop of _handle_client_process
Return(s, disposition) ==
  /\ pc' = [pc EXCEPT ![s] = IF disposition = STOP THEN "closed" ELSE "recv"]
  /\ keep_handling_client' = [keep_handling_client EXCEPT ![s] = disposition]
  /\ msg' = [msg EXCEPT ![s] = NoMsg]
  /\ agencyId' = [agencyId EXCEPT ![s] = None]
  /\ current_state' = [current_state EXCEPT ![s] = None]
  /\ dni_winners' = [dni_winners EXCEPT ![s] = <<>>]
  /\ storing_success' = [storing_success EXCEPT ![s] = FALSE]
  /\ UNCHANGED peer

\* the handler moves on to its next call
Goto(s, label) ==
  /\ pc' = [pc EXCEPT ![s] = label]
  /\ UNCHANGED <<peer, msg, keep_handling_client>>

LocalsUnchanged == UNCHANGED <<agencyId, current_state, dni_winners, storing_success>>

\* first call of the branch of send_message_response taken for a message
Dispatch(m) ==
  CASE m.type = "RegisterBets" -> "rb_set_readiness"
    [] m.type = "Ack" -> "ack_has_lottery_occurred"
    [] m.type = "AllBetsSent" -> "abs_set_readiness"
    [] m.type = "RequestWinners" -> "rw_set_readiness"
    [] OTHER -> "send_register_bets_failed"

\* Server.run: accept a connection and start its handler process
accept_new_connection(s) ==
  /\ main_pc = "accept"
  /\ running
  /\ listener = "listening"
  /\ pc[s] = "idle"
  /\ pc' = [pc EXCEPT ![s] = "recv"]
  /\ peer' = [peer EXCEPT ![s] = PeerAddr(s)]
  /\ UNCHANGED <<msg, agencyId, current_state, dni_winners, storing_success,
                 keep_handling_client, monVars, bets_file, obsVars>>
  /\ UNCHANGED <<mainVars, ioVars>>

\* the scenario "one or more RegisterBets, then AllBetsSent, nothing else"
ScriptStep(at, type) ==
  CASE at \in {"start", "bets"} /\ type = "RegisterBets" -> "bets"
    [] at = "bets" /\ type = "AllBetsSent" -> "done"
    [] OTHER -> "other"

\* client_sock.receive_message() returns m; send_message_response starts;
\* at most max_msgs messages and max_batches batches are received in all
receive_message_within(s, m, max_msgs, max_batches) ==
  /\ pc[s] = "recv"
  /\ nmsgs < max_msgs
  /\ m.type = "RegisterBets" => nbatches < max_batches
  /\ msg' = [msg EXCEPT ![s] = m]
  /\ pc' = [pc EXCEPT ![s] = Dispatch(m)]
  /\ agencyId' = [agencyId EXCEPT ![s] =
                    IF m.type = "RegisterBets" THEN m.bets[1].agency ELSE None]
  /\ script' = [script EXCEPT ![s] = ScriptStep(@, m.type)]
  /\ requested' = IF m.type = "RequestWinners" THEN requested \cup {s} ELSE requested
  /\ all_bets_sent' = IF m.type = "AllBetsSent" THEN all_bets_sent \cup {peer[s]}
                      ELSE all_bets_sent
  /\ nmsgs' = nmsgs + 1
  /\ nbatches' = IF m.type = "RegisterBets" THEN nbatches + 1 ELSE nbatches
  /\ last_read' = [last_read EXCEPT ![s] = m.type]
  /\ batch_log' = IF m.type = "RegisterBets"
                  THEN [batch_log EXCEPT ![s] = Append(@, [bets |-> m.bets, stored |-> "pending"])]
                  ELSE batch_log
  /\ UNCHANGED <<peer, current_state, dni_winners, storing_success, keep_handling_client,
                 monVars, bets_file, sent, own_agency, acked, stored_at, scanned,
                 exec_true, exec_false>>
  /\ UNCHANGED <<mainVars, ioVars>>

receive_message(s, m) == receive_message_within(s, m, MaxMsgs, MaxBatches)

\* a handler that writes the readiness before it looks at the first bet
receive_register_bets_empty_writing(s) ==
  /\ pc[s] = "recv"
  /\ nmsgs < MaxMsgs
  /\ nbatches < MaxBatches
  /\ msg' = [msg EXCEPT ![s] = MsgRegisterBets(<<>>)]
  /\ readiness_status' = DictSet(readiness_status, port(s), AGENCY_SENDING_BETS)
  /\ pc' = [pc EXCEPT ![s] = "closed"]
  /\ script' = [script EXCEPT ![s] = ScriptStep(@, "RegisterBets")]
  /\ nmsgs' = nmsgs + 1
  /\ nbatches' = nbatches + 1
  /\ last_read' = [last_read EXCEPT ![s] = "RegisterBets"]
  /\ UNCHANGED <<peer, agencyId, current_state, dni_winners, storing_success,
                 keep_handling_client, agency_id_by_port, winners, winners_per_agency,
                 lottery_executed, lottery_complete_event, lock, bets_file, sent, requested,
                 own_agency, all_bets_sent, acked, stored_at, scanned, exec_true, exec_false,
                 batch_log>>
  /\ UNCHANGED <<mainVars, ioVars>>

\* client_sock.receive_message() returns a MsgRegisterBets without bets:
\* send_message_response takes the port and then msg.get_bets()[0], which
\* raises IndexError before anything is written or sent; the exception is
\* not one the loop of _handle_client_process catches, the finally clause
\* shuts the socket down and the process ends
receive_register_bets_empty(s) ==
  /\ pc[s] = "recv"
  /\ nmsgs < MaxMsgs
  /\ nbatches < MaxBatches
  /\ msg' = [msg EXCEPT ![s] = MsgRegisterBets(<<>>)]
  /\ pc' = [pc EXCEPT ![s] = "closed"]
  /\ script' = [script EXCEPT ![s] = ScriptStep(@, "RegisterBets")]
  /\ nmsgs' = nmsgs + 1
  /\ nbatches' = nbatches + 1
  /\ last_read' = [last_read EXCEPT ![s] = "RegisterBets"]
  /\ UNCHANGED <<peer, agencyId, current_state, dni_winners, storing_success,
                 keep_handling_client, monVars, bets_file, sent, requested, own_agency,
                 all_bets_sent, acked, stored_at, scanned, exec_true, exec_false, batch_log>>
  /\ UNCHANGED <<mainVars, ioVars>>

\* a failed read after which the session removes its endpoint from the
\* readiness map
receive_fail_forgetting(s) ==
  /\ pc[s] = "recv"
  /\ pc' = [pc EXCEPT ![s] = "closed"]
  /\ readiness_status' = [p \in DOMAIN readiness_status \ {port(s)} |-> readiness_status[p]]
  /\ UNCHANGED <<peer, msg, agencyId, current_state, dni_winners, storing_success,
                 keep_handling_client, agency_id_by_port, winners, winners_per_agency,
                 lottery_executed, lottery_complete_event, lock, bets_file, obsVars>>
  /\ UNCHANGED <<mainVars, ioVars>>

\* client_sock.receive_message() raises ConnectionError: the loop breaks and
\* the socket is shut down
receive_fail(s) ==
  /\ pc[s] = "recv"
  /\ pc' = [pc EXCEPT ![s] = "closed"]
  /\ UNCHANGED <<peer, msg, agencyId, current_state, dni_winners, storing_success,
                 keep_handling_client, monVars, bets_file, obsVars>>
  /\ UNCHANGED <<mainVars, ioVars>>

\* client_sock.receive_message() reads a frame whose msg_type the decoder
\* does not know and raises ValueError: the loop breaks and the socket is
\* shut down
receive_unknown(s) ==
  /\ pc[s] = "recv"
  /\ nmsgs < MaxMsgs
  /\ pc' = [pc EXCEPT ![s] = "closed"]
  /\ nmsgs' = nmsgs + 1
  /\ last_read' = [last_read EXCEPT ![s] = "unknown"]
  /\ UNCHANGED <<peer, msg, agencyId, current_state, dni_winners, storing_success,
                 keep_handling_client, monVars, bets_file, sent, script, requested,
                 own_agency, all_bets_sent, acked, stored_at, scanned, exec_true,
                 exec_false, nbatches, batch_log>>
  /\ UNCHANGED <<mainVars, ioVars>>

\* the last branch of send_message_response: a message of no handled class
send_register_bets_failed(s) ==
  /\ pc[s] = "send_register_bets_failed"
  /\ sent' = [sent EXCEPT ![s] = Append(@, MsgRegisterBetFailed(FAILURE_UNKNOWN_MESSAGE))]
  /\ Return(s, STOP)
  /\ UNCHANGED <<monVars, bets_file, script, requested, own_agency, all_bets_sent, acked,
                 stored_at, scanned, exec_true, exec_false, nmsgs, nbatches, last_read,
                 batch_log>>
  /\ UNCHANGED <<mainVars, ioVars>>

\* ---------------------------------------------------------------------
\* MsgRegisterBets
\* ---------------------------------------------------------------------
\* LotteryMonitor.set_readiness as called by the handler of session s
set_readiness(s, state) ==
  /\ lock = Unlocked
  /\ readiness_status' = DictSet(readiness_status, port(s), state)
  /\ UNCHANGED <<agency_id_by_port, winners, winners_per_agency, lottery_executed,
                 lottery_complete_event, lock>>

rb_set_readiness(s) ==
  /\ pc[s] = "rb_set_readiness"
  /\ set_readiness(s, AGENCY_SENDING_BETS)
  /\ Goto(s, "rb_set_agency_id")
  /\ LocalsUnchanged
  /\ UNCHANGED <<bets_file, obsVars>>
  /\ UNCHANGED <<mainVars, ioVars>>

\* LotteryMonitor.set_agency_id
rb_set_agency_id(s) ==
  /\ pc[s] = "rb_set_agency_id"
  /\ lock = Unlocked
  /\ agency_id_by_port' = DictSet(agency_id_by_port, port(s), agencyId[s])
  /\ own_agency' = [own_agency EXCEPT ![s] = agencyId[s]]
  /\ Goto(s, "store_bets")
  /\ LocalsUnchanged
  /\ UNCHANGED <<readiness_status, winners, winners_per_agency, lottery_executed,
                 lottery_complete_event, lock, bets_file, sent, script, requested, all_bets_sent,
                 acked, stored_at, scanned, exec_true, exec_false, nmsgs, nbatches, last_read, batch_log>>
  /\ UNCHANGED <<mainVars, ioVars>>

\* store_bets that does not wait for the lock
store_bets_enter_unlocked(s) ==
  /\ pc[s] = "store_bets"
  /\ lock' = s
  /\ Goto(s, "store_bets_locked")
  /\ LocalsUnchanged
  /\ UNCHANGED <<readiness_status, agency_id_by_port, winners, winners_per_agency,
                 lottery_executed, lottery_complete_event, bets_file, obsVars>>
  /\ UNCHANGED <<mainVars, ioVars>>

\* LotteryMonitor.store_bets: the lock is taken
store_bets_enter(s) ==
  /\ pc[s] = "store_bets"
  /\ lock = Unlocked
  /\ lock' = s
  /\ Goto(s, "store_bets_locked")
  /\ LocalsUnchanged
  /\ UNCHANGED <<readiness_status, agency_id_by_port, winners, winners_per_agency,
                 lottery_executed, lottery_complete_event, bets_file, obsVars>>
  /\ UNCHANGED <<mainVars, ioVars>>

\* a store that leaves the first bet of the batch behind when it raises
store_bets_locked_partial(s, ok) ==
  /\ pc[s] = "store_bets_locked"
  /\ lock = s
  /\ LET bets == [i \in 1..Len(msg[s].bets) |-> to_utility_bet(msg[s].bets[i])]
     IN /\ bets_file' = IF ok THEN bets_file \o bets ELSE Append(bets_file, bets[1])
        /\ stored_at' = [stored_at EXCEPT ![s] =
                           IF ok THEN (Len(bets_file) + 1)..(Len(bets_file) + Len(bets))
                           ELSE {}]
  /\ storing_success' = [storing_success EXCEPT ![s] = ok]
  /\ batch_log' = [batch_log EXCEPT ![s][Len(batch_log[s])].stored = IF ok THEN "yes" ELSE "no"]
  /\ lock' = Unlocked
  /\ Goto(s, "process_batch_reply")
  /\ UNCHANGED <<agencyId, current_state, dni_winners>>
  /\ UNCHANGED <<readiness_status, agency_id_by_port, winners, winners_per_agency,
                 lottery_executed, lottery_complete_event, sent, script, requested, own_agency,
                 all_bets_sent, acked, scanned, exec_true, exec_false, nmsgs, nbatches, last_read>>
  /\ UNCHANGED <<mainVars, ioVars>>

\* LotteryMonitor.store_bets: utils.store_bets appends the batch, or raises
store_bets_locked(s, ok) ==
  /\ pc[s] = "store_bets_locked"
  /\ lock = s
  /\ LET bets == [i \in 1..Len(msg[s].bets) |-> to_utility_bet(msg[s].bets[i])]
     IN /\ bets_file' = IF ok THEN bets_file \o bets ELSE bets_file
        /\ stored_at' = [stored_at EXCEPT ![s] =
                           IF ok THEN (Len(bets_file) + 1)..(Len(bets_file) + Len(bets))
                           ELSE {}]
  /\ storing_success' = [storing_success EXCEPT ![s] = ok]
  /\ batch_log' = [batch_log EXCEPT ![s][Len(batch_log[s])].stored = IF ok THEN "yes" ELSE "no"]
  /\ lock' = Unlocked
  /\ Goto(s, "process_batch_reply")
  /\ UNCHANGED <<agencyId, current_state, dni_winners>>
  /\ UNCHANGED <<readiness_status, agency_id_by_port, winners, winners_per_agency,
                 lottery_executed, lottery_complete_event, sent, script, requested, own_agency,
                 all_bets_sent, acked, scanned, exec_true, exec_false, nmsgs, nbatches, last_read>>
  /\ UNCHANGED <<mainVars, ioVars>>

\* utils.store_bets writing the batch one bet at a time: the next bet of the
\* batch is appended to the file, inside the critical section of
\* LotteryMonitor.store_bets
store_bets_append(s) ==
  /\ pc[s] = "store_bets_locked"
  /\ lock = s
  /\ Cardinality(stored_at[s]) < Len(msg[s].bets)
  /\ bets_file' = Append(bets_file, to_utility_bet(msg[s].bets[Cardinality(stored_at[s]) + 1]))
  /\ stored_at' = [stored_at EXCEPT ![s] = @ \cup {Len(bets_file) + 1}]
  /\ UNCHANGED <<sessVars, monVars, sent, script, requested, own_agency, all_bets_sent, acked,
                 scanned, exec_true, exec_false, nmsgs, nbatches, last_read, batch_log>>
  /\ UNCHANGED <<mainVars, ioVars>>

\* LotteryMonitor.store_bets: utils.store_bets has written the whole batch
\* and returned; True is returned and the lock released
store_bets_return(s) ==
  /\ pc[s] = "store_bets_locked"
  /\ lock = s
  /\ Cardinality(stored_at[s]) = Len(msg[s].bets)
  /\ storing_success' = [storing_success EXCEPT ![s] = TRUE]
  /\ batch_log' = [batch_log EXCEPT ![s][Len(batch_log[s])].stored = "yes"]
  /\ lock' = Unlocked
  /\ Goto(s, "process_batch_reply")
  /\ UNCHANGED <<agencyId, current_state, dni_winners>>
  /\ UNCHANGED <<readiness_status, agency_id_by_port, winners, winners_per_agency,
                 lottery_executed, lottery_complete_event, bets_file, sent, script, requested,
                 own_agency, all_bets_sent, acked, stored_at, scanned, exec_true, exec_false,
                 nmsgs, nbatches, last_read>>
  /\ UNCHANGED <<mainVars, ioVars>>

\* a reply that does not look at the outcome of the store
process_batch_reply_always_ok(s) ==
  /\ pc[s] = "process_batch_reply"
  /\ sent' = [sent EXCEPT ![s] = Append(@, MsgRegisterBetOk)]
  /\ acked' = IF storing_success[s] THEN acked \cup stored_at[s] ELSE acked
  /\ stored_at' = [stored_at EXCEPT ![s] = {}]
  /\ Return(s, CONTINUE)
  /\ UNCHANGED <<monVars, bets_file, script, requested, own_agency, all_bets_sent, scanned,
                 exec_true, exec_false, nmsgs, nbatches, last_read, batch_log>>
  /\ UNCHANGED <<mainVars, ioVars>>

\* Server.__process_batch_bet_registration: the reply, then CONTINUE
process_batch_reply(s) ==
  /\ pc[s] = "process_batch_reply"
  /\ sent' = [sent EXCEPT ![s] =
                Append(@, IF storing_success[s] THEN MsgRegisterBetOk
                          ELSE MsgRegisterBetFailed(FAILURE_COULD_NOT_PROCESS_BET))]
  /\ acked' = IF storing_success[s] THEN acked \cup stored_at[s] ELSE acked
  /\ stored_at' = [stored_at EXCEPT ![s] = {}]
  /\ Return(s, CONTINUE)
  /\ UNCHANGED <<monVars, bets_file, script, requested, own_agency, all_bets_sent, scanned,
                 exec_true, exec_false, nmsgs, nbatches, last_read, batch_log>>
  /\ UNCHANGED <<mainVars, ioVars>>

\* ---------------------------------------------------------------------
\* MsgAck
\* ---------------------------------------------------------------------
\* a handler of Ack that acknowledges the Ack
ack_has_lottery_occurred_replying(s) ==
  /\ pc[s] = "ack_has_lottery_occurred"
  /\ lock = Unlocked
  /\ sent' = [sent EXCEPT ![s] = Append(@, [type |-> "Ack", error_code |-> 0, winners |-> <<>>])]
  /\ Return(s, IF has_lottery_occurred THEN CONTINUE_SAFE_TO_END ELSE CONTINUE)
  /\ UNCHANGED <<monVars, bets_file, script, requested, own_agency, all_bets_sent, acked,
                 stored_at, scanned, exec_true, exec_false, nmsgs, nbatches, last_read,
                 batch_log>>
  /\ UNCHANGED <<mainVars, ioVars>>

\* the branch of MsgAck: has_lottery_occurred is read and the handler returns
ack_has_lottery_occurred(s) ==
  /\ pc[s] = "ack_has_lottery_occurred"
  /\ lock = Unlocked
  /\ Return(s, IF has_lottery_occurred THEN CONTINUE_SAFE_TO_END ELSE CONTINUE)
  /\ UNCHANGED <<monVars, bets_file, obsVars>>
  /\ UNCHANGED <<mainVars, ioVars>>

\* ---------------------------------------------------------------------
\* MsgAllBetsSent
\* ---------------------------------------------------------------------
abs_set_readiness(s) ==
  /\ pc[s] = "abs_set_readiness"
  /\ set_readiness(s, AGENCY_READY_FOR_LOTTERY)
  /\ Goto(s, "abs_all_agencies_ready")
  /\ LocalsUnchanged
  /\ UNCHANGED <<bets_file, obsVars>>
  /\ UNCHANGED <<mainVars, ioVars>>

\* Server.__all_agencies_ready: the lottery is tried when it holds; otherwise
\* the handler returns CONTINUE_SAFE_TO_END
abs_all_agencies_ready(s) ==
  /\ pc[s] = "abs_all_agencies_ready"
  /\ lock = Unlocked
  /\ IF all_agencies_ready(max_agencies, AGENCY_SENDING_BETS)
     THEN Goto(s, "execute_lottery") /\ LocalsUnchanged
     ELSE Return(s, CONTINUE_SAFE_TO_END)
  /\ UNCHANGED <<monVars, bets_file, obsVars>>
  /\ UNCHANGED <<mainVars, ioVars>>

\* execute_lottery that clears the flag when it finds it set
execute_lottery_enter_rearming(s) ==
  /\ pc[s] = "execute_lottery"
  /\ lock = Unlocked
  /\ IF lottery_executed
     THEN /\ exec_false' = exec_false + 1
          /\ lottery_executed' = FALSE
          /\ Goto(s, "sw_get_readiness")
          /\ UNCHANGED lock
     ELSE /\ lottery_executed' = TRUE
          /\ lock' = s
          /\ Goto(s, "execute_lottery_locked")
          /\ UNCHANGED exec_false
  /\ LocalsUnchanged
  /\ UNCHANGED <<readiness_status, agency_id_by_port, winners, winners_per_agency,
                 lottery_complete_event, bets_file, sent, script, requested, own_agency,
                 all_bets_sent, acked, stored_at, scanned, exec_true, nmsgs, nbatches, last_read, batch_log>>
  /\ UNCHANGED <<mainVars, ioVars>>

\* execute_lottery without the test of the flag: every call latches and runs
execute_lottery_enter_unguarded(s) ==
  /\ pc[s] = "execute_lottery"
  /\ lock = Unlocked
  /\ lottery_executed' = TRUE
  /\ lock' = s
  /\ Goto(s, "execute_lottery_locked")
  /\ LocalsUnchanged
  /\ UNCHANGED <<readiness_status, agency_id_by_port, winners, winners_per_agency,
                 lottery_complete_event, bets_file, sent, script, requested, own_agency,
                 all_bets_sent, acked, stored_at, scanned, exec_true, exec_false,
                 nmsgs, nbatches, last_read, batch_log>>
  /\ UNCHANGED <<mainVars, ioVars>>

\* LotteryMonitor.execute_lottery: the lock is taken and the flag tested; a
\* call that finds it set returns False, the other latches it
execute_lottery_enter(s) ==
  /\ pc[s] = "execute_lottery"
  /\ lock = Unlocked
  /\ IF lottery_executed
     THEN /\ exec_false' = exec_false + 1
          /\ Goto(s, "sw_get_readiness")
          /\ UNCHANGED <<lottery_executed, lock>>
     ELSE /\ lottery_executed' = TRUE
          /\ lock' = s
          /\ Goto(s, "execute_lottery_locked")
          /\ UNCHANGED exec_false
  /\ LocalsUnchanged
  /\ UNCHANGED <<readiness_status, agency_id_by_port, winners, winners_per_agency,
                 lottery_complete_event, bets_file, sent, script, requested, own_agency,
                 all_bets_sent, acked, stored_at, scanned, exec_true, nmsgs, nbatches, last_read, batch_log>>
  /\ UNCHANGED <<mainVars, ioVars>>

\* execute_lottery that sets the event inside the critical section
execute_lottery_locked_signalling(s) ==
  /\ pc[s] = "execute_lottery_locked"
  /\ lock = s
  /\ LET r == ComputeWinners(bets_file, 1, winners, winners_per_agency)
     IN /\ winners' = r.winners
        /\ winners_per_agency' = r.winners_per_agency
  /\ scanned' = Len(bets_file)
  /\ lottery_complete_event' = TRUE
  /\ lock' = Unlocked
  /\ Goto(s, "execute_lottery_set_event")
  /\ LocalsUnchanged
  /\ UNCHANGED <<readiness_status, agency_id_by_port, lottery_executed,
                 bets_file, sent, script, requested, own_agency,
                 all_bets_sent, acked, stored_at, exec_true, exec_false, nmsgs, nbatches, last_read, batch_log>>
  /\ UNCHANGED <<mainVars, ioVars>>

\* LotteryMonitor.execute_lottery: load_bets and the loop over the bets, then
\* the lock is released
execute_lottery_locked(s) ==
  /\ pc[s] = "execute_lottery_locked"
  /\ lock = s
  /\ LET r == ComputeWinners(bets_file, 1, winners, winners_per_agency)
     IN /\ winners' = r.winners
        /\ winners_per_agency' = r.winners_per_agency
  /\ scanned' = Len(bets_file)
  /\ lock' = Unlocked
  /\ Goto(s, "execute_lottery_set_event")
  /\ LocalsUnchanged
  /\ UNCHANGED <<readiness_status, agency_id_by_port, lottery_executed,
                 lottery_complete_event, bets_file, sent, script, requested, own_agency,
                 all_bets_sent, acked, stored_at, exec_true, exec_false, nmsgs, nbatches, last_read, batch_log>>
  /\ UNCHANGED <<mainVars, ioVars>>

\* a failing load_bets after which execute_lottery clears the flag again
execute_lottery_load_raises_resetting(s) ==
  /\ pc[s] = "execute_lottery_locked"
  /\ lock = s
  /\ lottery_executed' = FALSE
  /\ lock' = Unlocked
  /\ pc' = [pc EXCEPT ![s] = "closed"]
  /\ UNCHANGED <<peer, msg, agencyId, current_state, dni_winners, storing_success,
                 keep_handling_client>>
  /\ UNCHANGED <<readiness_status, agency_id_by_port, winners, winners_per_agency,
                 lottery_complete_event, bets_file, obsVars>>
  /\ UNCHANGED <<mainVars, ioVars>>

\* LotteryMonitor.execute_lottery: load_bets raises. The exception leaves the
\* with block, which releases the lock, and execute_lottery, __do_lottery and
\* send_message_response; the loop of _handle_client_process ends and the
\* socket is shut down
execute_lottery_load_raises(s) ==
  /\ pc[s] = "execute_lottery_locked"
  /\ lock = s
  /\ lock' = Unlocked
  /\ pc' = [pc EXCEPT ![s] = "closed"]
  /\ UNCHANGED <<peer, msg, agencyId, current_state, dni_winners, storing_success,
                 keep_handling_client>>
  /\ UNCHANGED <<readiness_status, agency_id_by_port, winners, winners_per_agency,
                 lottery_executed, lottery_complete_event, bets_file, obsVars>>
  /\ UNCHANGED <<mainVars, ioVars>>

\* execute_lottery returning True without setting the event
execute_lottery_set_event_skipped(s) ==
  /\ pc[s] = "execute_lottery_set_event"
  /\ exec_true' = exec_true + 1
  /\ Goto(s, "sw_get_readiness")
  /\ LocalsUnchanged
  /\ UNCHANGED <<monVars, bets_file, sent, script, requested, own_agency,
                 all_bets_sent, acked, stored_at, scanned, exec_false, nmsgs, nbatches, last_read, batch_log>>
  /\ UNCHANGED <<mainVars, ioVars>>

\* LotteryMonitor.execute_lottery: the event is set outside the lock; True
execute_lottery_set_event(s) ==
  /\ pc[s] = "execute_lottery_set_event"
  /\ lottery_complete_event' = TRUE
  /\ exec_true' = exec_true + 1
  /\ Goto(s, "sw_get_readiness")
  /\ LocalsUnchanged
  /\ UNCHANGED <<readiness_status, agency_id_by_port, winners, winners_per_agency,
                 lottery_executed, lock, bets_file, sent, script, requested, own_agency,
                 all_bets_sent, acked, stored_at, scanned, exec_false, nmsgs, nbatches, last_read, batch_log>>
  /\ UNCHANGED <<mainVars, ioVars>>

\* ---------------------------------------------------------------------
\* Server.__send_winners_to_client (both callers return
\* CONTINUE_SAFE_TO_END after it)
\* ---------------------------------------------------------------------
\* a gate that lets every agency through that is not sending bets
WinnersGate_not_sending(state) == state # None /\ state # AGENCY_SENDING_BETS

\* the gate of __send_winners_to_client on the state it read
WinnersGate(state) == state = AGENCY_WAITING_FOR_LOTTERY

sw_get_readiness(s) ==
  /\ pc[s] = "sw_get_readiness"
  /\ lock = Unlocked
  /\ IF WinnersGate(get_readiness(port(s)))
     THEN /\ current_state' = [current_state EXCEPT ![s] = get_readiness(port(s))]
          /\ Goto(s, "sw_get_agency_id")
          /\ UNCHANGED <<agencyId, dni_winners, storing_success>>
     ELSE Return(s, CONTINUE_SAFE_TO_END)
  /\ UNCHANGED <<monVars, bets_file, obsVars>>
  /\ UNCHANGED <<mainVars, ioVars>>

sw_get_agency_id(s) ==
  /\ pc[s] = "sw_get_agency_id"
  /\ lock = Unlocked
  /\ IF Truthy(get_agency_id(port(s)))
     THEN /\ agencyId' = [agencyId EXCEPT ![s] = get_agency_id(port(s))]
          /\ Goto(s, "sw_get_winners")
          /\ UNCHANGED <<current_state, dni_winners, storing_success>>
     ELSE Return(s, CONTINUE_SAFE_TO_END)
  /\ UNCHANGED <<monVars, bets_file, obsVars>>
  /\ UNCHANGED <<mainVars, ioVars>>

sw_get_winners(s) ==
  /\ pc[s] = "sw_get_winners"
  /\ lock = Unlocked
  /\ dni_winners' = [dni_winners EXCEPT ![s] = get_winners_for_agency(agencyId[s])]
  /\ Goto(s, "sw_inform_winners")
  /\ UNCHANGED <<agencyId, current_state, storing_success>>
  /\ UNCHANGED <<monVars, bets_file, obsVars>>
  /\ UNCHANGED <<mainVars, ioVars>>

\* Protocol.inform_winners
sw_inform_winners(s) ==
  /\ pc[s] = "sw_inform_winners"
  /\ sent' = [sent EXCEPT ![s] = Append(@, MsgInformWinners(dni_winners[s]))]
  /\ Goto(s, "sw_set_readiness")
  /\ LocalsUnchanged
  /\ UNCHANGED <<monVars, bets_file, script, requested, own_agency, all_bets_sent, acked,
                 stored_at, scanned, exec_true, exec_false, nmsgs, nbatches, last_read, batch_log>>
  /\ UNCHANGED <<mainVars, ioVars>>

sw_set_readiness(s) ==
  /\ pc[s] = "sw_set_readiness"
  /\ set_readiness(s, AGENCY_GOT_LOTTERY_WINNERS)
  /\ Return(s, CONTINUE_SAFE_TO_END)
  /\ UNCHANGED <<bets_file, obsVars>>
  /\ UNCHANGED <<mainVars, ioVars>>

\* ---------------------------------------------------------------------
\* MsgRequestWinners
\* ---------------------------------------------------------------------
rw_set_readiness(s) ==
  /\ pc[s] = "rw_set_readiness"
  /\ set_readiness(s, AGENCY_WAITING_FOR_LOTTERY)
  /\ Goto(s, "rw_has_lottery_occurred")
  /\ LocalsUnchanged
  /\ UNCHANGED <<bets_file, obsVars>>
  /\ UNCHANGED <<mainVars, ioVars>>

rw_has_lottery_occurred(s) ==
  /\ pc[s] = "rw_has_lottery_occurred"
  /\ lock = Unlocked
  /\ Goto(s, IF has_lottery_occurred THEN "sw_get_readiness" ELSE "rw_get_agency_id")
  /\ LocalsUnchanged
  /\ UNCHANGED <<monVars, bets_file, obsVars>>
  /\ UNCHANGED <<mainVars, ioVars>>

\* the lottery has not occurred: the agency id is read for the log line and
\* the handler returns CONTINUE
rw_get_agency_id(s) ==
  /\ pc[s] = "rw_get_agency_id"
  /\ lock = Unlocked
  /\ Return(s, CONTINUE)
  /\ UNCHANGED <<monVars, bets_file, obsVars>>
  /\ UNCHANGED <<mainVars, ioVars>>

\* ---------------------------------------------------------------------
\* A process that waits for the lottery through the monitor
\* ---------------------------------------------------------------------
\* a wait that returns whether or not the event is set
wait_for_lottery_completion_spurious(s) ==
  /\ pc[s] = "idle"
  /\ Goto(s, "waited")
  /\ LocalsUnchanged
  /\ UNCHANGED <<monVars, bets_file, obsVars>>
  /\ UNCHANGED <<mainVars, ioVars>>

\* LotteryMonitor.wait_for_lottery_completion: Event.wait() returns once the
\* event is set
wait_for_lottery_completion(s) ==
  /\ pc[s] = "idle"
  /\ lottery_complete_event
  /\ Goto(s, "waited")
  /\ LocalsUnchanged
  /\ UNCHANGED <<monVars, bets_file, obsVars>>
  /\ UNCHANGED <<mainVars, ioVars>>

\* LotteryMonitor.get_winners_for_agency called after the wait returned
waited_get_winners_for_agency(s, agency) ==
  /\ pc[s] = "waited"
  /\ lock = Unlocked
  /\ agencyId' = [agencyId EXCEPT ![s] = agency]
  /\ dni_winners' = [dni_winners EXCEPT ![s] = get_winners_for_agency(agency)]
  /\ Goto(s, "waited_read")
  /\ UNCHANGED <<current_state, storing_success>>
  /\ UNCHANGED <<monVars, bets_file, obsVars>>
  /\ UNCHANGED <<mainVars, ioVars>>

Min(a, b) == IF a < b THEN a ELSE b

\* ---------------------------------------------------------------------
\* Wire format: integers and strings
\* ---------------------------------------------------------------------
\* int.to_bytes(size, "big") of a non-negative integer that fits
RECURSIVE to_bytes(_, _)
to_bytes(n, size) ==
  IF size = 0 THEN <<>> ELSE Append(to_bytes(n \div 256, size - 1), n % 256)

\* int.to_bytes(size, "big", signed=True): two's complement
to_bytes_signed(n, size) ==
  IF n >= 0 THEN to_bytes(n, size)
  ELSE [i \in 1..size |-> 255 - to_bytes(-n - 1, size)[i]]

\* int.from_bytes(b, "big"); a value of MaxLength or more is kept as
\* MaxLength, which no stream of the model is long enough to satisfy
RECURSIVE from_bytes(_)
from_bytes(b) ==
  IF Len(b) = 0 THEN 0
  ELSE LET hi == from_bytes(SubSeq(b, 1, Len(b) - 1))
       IN IF hi >= MaxLength \div 256 THEN MaxLength ELSE hi * 256 + b[Len(b)]

\* int.from_bytes(b, "big", signed=True)
from_bytes_signed(b) ==
  IF Len(b) > 0 /\ b[1] >= 128
  THEN -from_bytes([i \in 1..Len(b) |-> 255 - b[i]]) - 1
  ELSE from_bytes(b)

\* b[lo:hi] of Python: cut to the bytes there are
Slice(b, lo, hi) == SubSeq(b, lo + 1, Min(hi, Len(b)))

\* str.encode("utf-8") of a string given as its code points (below 2048)
RECURSIVE encode(_)
encode(s) ==
  IF Len(s) = 0 THEN <<>>
  ELSE encode(SubSeq(s, 1, Len(s) - 1)) \o
       ( IF s[Len(s)] < 128 THEN <<s[Len(s)]>>
         ELSE <<192 + (s[Len(s)] \div 64), 128 + (s[Len(s)] % 64)>> )

\* bytes.decode("utf-8"): the code points, or Invalid where Python raises
\* UnicodeDecodeError (a ValueError)
Invalid == <<-1>>

RECURSIVE decode(_)
decode(b) ==
  IF Len(b) = 0 THEN <<>>
  ELSE IF b[1] < 128
         THEN LET rest == decode(SubSeq(b, 2, Len(b)))
              IN IF rest = Invalid THEN Invalid ELSE <<b[1]>> \o rest
  ELSE IF b[1] >= 194 /\ b[1] < 224 /\ Len(b) >= 2 /\ b[2] >= 128 /\ b[2] < 192
         THEN LET rest == decode(SubSeq(b, 3, Len(b)))
              IN IF rest = Invalid THEN Invalid
                 ELSE <<(b[1] - 192) * 64 + (b[2] - 128)>> \o rest
  ELSE Invalid

\* ---------------------------------------------------------------------
\* Encoders (messages.py)
\* ---------------------------------------------------------------------
\* StandardBet with every field that goes on the wire
WireBet(agency, name, surname, dni, birthdate, number) ==
  [agency |-> agency, name |-> name, surname |-> surname, dni |-> dni,
   birthdate |-> birthdate, number |-> number]

\* StandardBet.to_bytes
StandardBet_to_bytes(bet) ==
  LET name_bytes == encode(bet.name)
      surname_bytes == encode(bet.surname)
      payload == to_bytes(bet.agency, SIZEOF_UINT32)
                 \o to_bytes(Len(name_bytes), SIZEOF_UINT32) \o name_bytes
                 \o to_bytes(Len(surname_bytes), SIZEOF_UINT32) \o surname_bytes
                 \o to_bytes(bet.dni, SIZEOF_UINT32)
                 \o to_bytes_signed(bet.birthdate, SIZEOF_INT64)
                 \o to_bytes(bet.number, SIZEOF_UINT32)
  IN to_bytes(Len(payload), SIZEOF_UINT32) \o payload

RECURSIVE bets_to_bytes(_)
bets_to_bytes(bets) ==
  IF Len(bets) = 0 THEN <<>>
  ELSE bets_to_bytes(SubSeq(bets, 1, Len(bets) - 1)) \o StandardBet_to_bytes(bets[Len(bets)])

\* MsgRegisterBets.to_bytes
MsgRegisterBets_to_bytes(m) ==
  to_bytes(MSG_TYPE_REGISTER_BETS, SIZEOF_UINT16)
  \o to_bytes(Len(m.bets), SIZEOF_UINT32)
  \o bets_to_bytes(m.bets)

\* MsgRegisterBetOk.to_bytes
MsgRegisterBetOk_to_bytes == to_bytes(MSG_TYPE_REGISTER_BET_OK, SIZEOF_UINT16)

\* MsgAck.to_bytes
MsgAck_to_bytes == to_bytes(MSG_TYPE_ACK, SIZEOF_UINT16)

\* MsgRegisterBetFailed.to_bytes
MsgRegisterBetFailed_to_bytes(m) ==
  LET payload == to_bytes(m.error_code, SIZEOF_UINT16)
  IN to_bytes(MSG_TYPE_REGISTER_BET_FAILED, SIZEOF_UINT16)
     \o to_bytes(Len(payload), SIZEOF_UINT32) \o payload

\* msg.to_bytes(...) of Socket.send_message
Message_to_bytes(m) ==
  CASE m.type = "RegisterBets" -> MsgRegisterBets_to_bytes(m)
    [] m.type = "RegisterBetsOk" -> MsgRegisterBetOk_to_bytes
    [] m.type = "Ack" -> MsgAck_to_bytes
    [] m.type = "RegisterBetsFailed" -> MsgRegisterBetFailed_to_bytes(m)

\* ---------------------------------------------------------------------
\* Decoders (socket.py)
\* ---------------------------------------------------------------------
\* the name socket.py imports for message type 1
MSG_TYPE_REGISTER_BET == MSG_TYPE_REGISTER_BETS

ValueError == [type |-> "ValueError"]

\* Socket.__decode_register_bet
decode_register_bet(payload) ==
  LET o1 == SIZEOF_UINT32
      name_len == from_bytes(Slice(payload, o1, o1 + SIZEOF_UINT32))
      o2 == o1 + SIZEOF_UINT32
      name == decode(Slice(payload, o2, o2 + name_len))
      o3 == o2 + name_len
      surname_len == from_bytes(Slice(payload, o3, o3 + SIZEOF_UINT32))
      o4 == o3 + SIZEOF_UINT32
      surname == decode(Slice(payload, o4, o4 + surname_len))
      o5 == o4 + surname_len
      o6 == o5 + SIZEOF_UINT32
      o7 == o6 + SIZEOF_INT64
  IN IF name = Invalid \/ surname = Invalid THEN ValueError
     ELSE [type |-> "RegisterBet",
           agency |-> from_bytes(Slice(payload, 0, o1)),
           name |-> name,
           surname |-> surname,
           dni |-> from_bytes(Slice(payload, o5, o6)),
           birthdate |-> from_bytes_signed(Slice(payload, o6, o7)),
           number |-> from_bytes(Slice(payload, o7, o7 + SIZEOF_UINT32))]

\* Socket.__decode_register_bet_ok
decode_register_bet_ok(payload) ==
  [type |-> "RegisterBetsOk",
   dni |-> from_bytes(Slice(payload, 0, SIZEOF_UINT32)),
   number |-> from_bytes(Slice(payload, SIZEOF_UINT32, 2 * SIZEOF_UINT32))]

\* Socket.__decode_register_bet_failed
decode_register_bet_failed(payload) ==
  [type |-> "RegisterBetsFailed",
   dni |-> from_bytes(Slice(payload, 0, SIZEOF_UINT32)),
   number |-> from_bytes(Slice(payload, SIZEOF_UINT32, 2 * SIZEOF_UINT32)),
   error_code |-> from_bytes(Slice(payload, 2 * SIZEOF_UINT32,
                                   2 * SIZEOF_UINT32 + SIZEOF_UINT16))]

\* Socket.__decode_message, from the header on: the dispatch on msg_type
decode_message_dispatch(msg_type, payload) ==
  IF msg_type = MSG_TYPE_REGISTER_BET THEN decode_register_bet(payload)
  ELSE IF msg_type = MSG_TYPE_REGISTER_BET_OK THEN decode_register_bet_ok(payload)
  ELSE IF msg_type = MSG_TYPE_REGISTER_BET_FAILED THEN decode_register_bet_failed(payload)
  ELSE ValueError

\* Socket.__decode_message: where __receive_all returns to. The header read
\* is followed by the payload read of the length the header carries; the
\* payload read is followed by the dispatch.
ReceiveAllReturnsTo(caller) ==
  CASE caller = "caller" ->
         /\ io_pc' = "returned"
         /\ UNCHANGED <<wire, pos, n_bytes, data, io_ret, header, encoded, decoded, stream, received>>
    [] caller = "header" ->
         /\ header' = data
         /\ n_bytes' = from_bytes(Slice(data, SIZEOF_UINT16, SIZEOF_UINT16 + SIZEOF_UINT64))
         /\ data' = <<>>
         /\ io_ret' = "payload"
         /\ UNCHANGED <<wire, pos, io_pc, encoded, decoded, stream, received>>
    [] caller = "payload" ->
         LET m == decode_message_dispatch(from_bytes(Slice(header, 0, SIZEOF_UINT16)), data)
         IN /\ decoded' = m
            /\ io_pc' = IF m = ValueError THEN "raised" ELSE "returned"
            /\ UNCHANGED <<wire, pos, n_bytes, data, io_ret, header, encoded, stream, received>>

\* ---------------------------------------------------------------------
\* Socket.__receive_all
\* ---------------------------------------------------------------------

\* a recv that ignores the size it was asked for
recv_unbounded(c) ==
  /\ io_pc = "receive_all"
  /\ Len(data) < n_bytes
  /\ c \in 1..(Len(wire) - pos)
  /\ data' = data \o SubSeq(wire, pos + 1, pos + c)
  /\ pos' = pos + c
  /\ UNCHANGED <<wire, n_bytes, io_pc, io_ret, header, encoded, decoded, stream, received>>
  /\ UNCHANGED <<sessVars, monVars, bets_file, obsVars, mainVars>>

\* one turn of the loop: self._socket.recv(n_bytes - len(data)) returns c
\* bytes, at least one and at most the size asked for, and they are appended
recv(c) ==
  /\ io_pc = "receive_all"
  /\ Len(data) < n_bytes
  /\ c \in 1..Min(n_bytes - Len(data), Len(wire) - pos)
  /\ data' = data \o SubSeq(wire, pos + 1, pos + c)
  /\ pos' = pos + c
  /\ UNCHANGED <<wire, n_bytes, io_pc, io_ret, header, encoded, decoded, stream, received>>
  /\ UNCHANGED <<sessVars, monVars, bets_file, obsVars, mainVars>>

\* one turn of the loop: the peer has closed, recv returns b"" and
\* ConnectionError is raised (it passes through __decode_message)
recv_disconnected ==
  /\ io_pc = "receive_all"
  /\ Len(data) < n_bytes
  /\ pos = Len(wire)
  /\ io_pc' = "raised"
  /\ decoded' = [type |-> "ConnectionError"]
  /\ UNCHANGED <<wire, pos, n_bytes, data, io_ret, header, encoded, stream, received>>
  /\ UNCHANGED <<sessVars, monVars, bets_file, obsVars, mainVars>>

\* the loop condition fails: data is returned to the caller
receive_all_return ==
  /\ io_pc = "receive_all"
  /\ ~(Len(data) < n_bytes)
  /\ ReceiveAllReturnsTo(io_ret)
  /\ UNCHANGED <<sessVars, monVars, bets_file, obsVars, mainVars>>

\* Socket.receive_message called again on the same connection, the message
\* returned before having been taken by the caller: __decode_message starts
\* with the read of the header
decode_message ==
  /\ io_pc = "returned"
  /\ io_ret = "payload"
  /\ received' = Append(received, decoded)
  /\ n_bytes' = SIZEOF_UINT16 + SIZEOF_UINT64
  /\ data' = <<>>
  /\ io_pc' = "receive_all"
  /\ io_ret' = "header"
  /\ header' = <<>>
  /\ decoded' = NoMessage
  /\ UNCHANGED <<wire, pos, encoded, stream>>
  /\ UNCHANGED <<sessVars, monVars, bets_file, obsVars, mainVars>>

\* ---------------------------------------------------------------------
\* The main process: main(), Server.run, Server.stop
\* ---------------------------------------------------------------------
\* main() returns, normally or through its except clause, which only logs;
\* the interpreter then exits with status 0
main_returns ==
  /\ main_pc' = "returned"
  /\ exit_code' = 0

\* initialize_config: the configuration is read, or KeyError / ValueError
\* is raised and caught by main
initialize_config(ok) ==
  /\ main_pc = "main"
  /\ IF ok
     THEN /\ main_pc' = "server_init"
          /\ UNCHANGED <<startup_error, exit_code>>
     ELSE /\ startup_error' = "config"
          /\ main_returns
  /\ UNCHANGED <<running, stopped, listener, sigterm, waiting_at_stop>>
  /\ UNCHANGED <<sessVars, monVars, bets_file, obsVars, ioVars>>

\* Server(...): the listening socket is bound and the signal handler is
\* registered, or the bind raises OSError, caught by main
server_init(ok) ==
  /\ main_pc = "server_init"
  /\ IF ok
     THEN /\ main_pc' = "run"
          /\ listener' = "listening"
          /\ UNCHANGED <<startup_error, exit_code>>
     ELSE /\ startup_error' = "bind"
          /\ main_returns
          /\ UNCHANGED listener
  /\ UNCHANGED <<running, stopped, sigterm, waiting_at_stop>>
  /\ UNCHANGED <<sessVars, monVars, bets_file, obsVars, ioVars>>

\* Server.run up to its loop
run_start ==
  /\ main_pc = "run"
  /\ running' = TRUE
  /\ IF stopped
     THEN main_returns
     ELSE /\ main_pc' = "accept"
          /\ UNCHANGED exit_code
  /\ UNCHANGED <<stopped, listener, sigterm, startup_error, waiting_at_stop>>
  /\ UNCHANGED <<sessVars, monVars, bets_file, obsVars, ioVars>>

\* a session that is reading its next message with its endpoint left in
\* AGENCY_WAITING_FOR_LOTTERY
WaitingForLottery(s) ==
  /\ pc[s] = "recv"
  /\ get_readiness(port(s)) = AGENCY_WAITING_FOR_LOTTERY

\* Server.stop, run by the signal handler of the main process: the listening
\* socket is shut down and every handler process started is sent SIGTERM
stop ==
  /\ main_pc \in {"run", "accept"}
  /\ running' = FALSE
  /\ IF stopped
     THEN UNCHANGED <<stopped, listener, sigterm, waiting_at_stop>>
     ELSE /\ listener' = "closed"
          /\ sigterm' = {s \in Sessions : pc[s] # "idle"}
          /\ stopped' = TRUE
          /\ waiting_at_stop' = {s \in Sessions : WaitingForLottery(s)}
  /\ UNCHANGED <<main_pc, startup_error, exit_code>>
  /\ UNCHANGED <<sessVars, monVars, bets_file, obsVars, ioVars>>

\* Server.run: accept_new_connection returns no socket once the listening
\* socket is closed, the loop ends on _running, the cleanup is skipped since
\* _stopped is set, and main returns
run_return ==
  /\ main_pc = "accept"
  /\ ~running
  /\ main_returns
  /\ UNCHANGED <<running, stopped, listener, sigterm, startup_error, waiting_at_stop>>
  /\ UNCHANGED <<sessVars, monVars, bets_file, obsVars, ioVars>>

\* SIGTERM is delivered to a handler process. It runs the handler it
\* inherited: Server.stop in its own copy of the server, where shutting down
\* the listening socket again raises OSError. The exception leaves whatever
\* the process was doing (a lock it holds is released), is caught by the loop
\* of _handle_client_process, and the socket is closed. A process that has
\* already finished is not affected.
handle_sigterm(s) ==
  /\ s \in sigterm
  /\ sigterm' = sigterm \ {s}
  /\ IF pc[s] = "closed"
     THEN UNCHANGED <<sessVars, lock>>
     ELSE /\ pc' = [pc EXCEPT ![s] = "closed"]
          /\ lock' = IF lock = s THEN Unlocked ELSE lock
          /\ UNCHANGED <<peer, msg, agencyId, current_state, dni_winners, storing_success,
                         keep_handling_client>>
  /\ UNCHANGED <<readiness_status, agency_id_by_port, winners, winners_per_agency,
                 lottery_executed, lottery_complete_event, bets_file, obsVars, ioVars>>
  /\ UNCHANGED <<main_pc, running, stopped, listener, startup_error, exit_code,
                 waiting_at_stop>>

\* SIGTERM is delivered while the process is inside utils.store_bets: the
\* OSError is caught by the "except Exception" of LotteryMonitor.store_bets,
\* which returns False, and the process goes on
handle_sigterm_in_store_bets(s) ==
  /\ s \in sigterm
  /\ pc[s] = "store_bets_locked"
  /\ lock = s
  /\ sigterm' = sigterm \ {s}
  /\ storing_success' = [storing_success EXCEPT ![s] = FALSE]
  /\ stored_at' = [stored_at EXCEPT ![s] = {}]
  /\ batch_log' = [batch_log EXCEPT ![s][Len(batch_log[s])].stored = "no"]
  /\ lock' = Unlocked
  /\ Goto(s, "process_batch_reply")
  /\ UNCHANGED <<agencyId, current_state, dni_winners>>
  /\ UNCHANGED <<readiness_status, agency_id_by_port, winners, winners_per_agency,
                 lottery_executed, lottery_complete_event, bets_file, sent, script, requested,
                 own_agency, all_bets_sent, acked, scanned, exec_true, exec_false, nmsgs,
                 nbatches, last_read, ioVars>>
  /\ UNCHANGED <<main_pc, running, stopped, listener, startup_error, exit_code,
                 waiting_at_stop>>

\* ---------------------------------------------------------------------
\* Specification
\* ---------------------------------------------------------------------
\* the steps of the handler processes of the connections SS; Outcomes are
\* the outcomes of utils.store_bets (TRUE: stored, FALSE: it raised)
HandlerSteps(SS, Outcomes) ==
  \/ \E s \in SS : rb_set_readiness(s)
  \/ \E s \in SS : rb_set_agency_id(s)
  \/ \E s \in SS : store_bets_enter(s)
  \/ \E s \in SS, ok \in Outcomes : store_bets_locked(s, ok)
  \/ \E s \in SS : process_batch_reply(s)
  \/ \E s \in SS : abs_set_readiness(s)
  \/ \E s \in SS : abs_all_agencies_ready(s)
  \/ \E s \in SS : execute_lottery_enter(s)
  \/ \E s \in SS : execute_lottery_locked(s)
  \/ \E s \in SS : execute_lottery_set_event(s)
  \/ \E s \in SS : sw_get_readiness(s)
  \/ \E s \in SS : sw_get_agency_id(s)
  \/ \E s \in SS : sw_get_winners(s)
  \/ \E s \in SS : sw_inform_winners(s)
  \/ \E s \in SS : sw_set_readiness(s)
  \/ \E s \in SS : rw_set_readiness(s)
  \/ \E s \in SS : rw_has_lottery_occurred(s)
  \/ \E s \in SS : rw_get_agency_id(s)

\* two connections with different port numbers; the clients send any of
\* ClientMessages in any order
Next ==
  \/ \E s \in 1..2 : accept_new_connection(s)
  \/ \E s \in 1..2, m \in ClientMessages : receive_message(s, m)
  \/ \E s \in 1..2 : receive_fail(s)
  \/ HandlerSteps(1..2, BOOLEAN)

Spec == Init /\ [][Next]_vars

\* three connections, the first and the third with the same port number: the
\* first sends the bets of agency 1, the third those of agency 2, the second
\* sends only AllBetsSent and Ack; the store does not fail
SharedPortMessages(s) ==
  CASE s = 1 -> {MsgRegisterBets(<<BetA1, BetA1w>>), MsgAllBetsSent, MsgRequestWinners}
    [] s = 3 -> {MsgRegisterBets(<<BetA2>>), MsgAllBetsSent, MsgRequestWinners}
    [] OTHER -> {MsgAllBetsSent, MsgAck}

NextSharedPort ==
  \/ \E s \in 1..3 : accept_new_connection(s)
  \/ \E s \in 1..3 : \E m \in SharedPortMessages(s) : receive_message(s, m)
  \/ \E s \in 1..3 : ack_has_lottery_occurred(s)
  \/ HandlerSteps(1..3, {TRUE})

SpecSharedPort == Init /\ [][NextSharedPort]_vars

\* the two connections of Spec (the store does not fail) and a third process
\* that waits for the lottery and then reads the winners of an agency
NextWaiter ==
  \/ \E s \in 1..2 : accept_new_connection(s)
  \/ \E s \in 1..2, m \in ClientMessages : receive_message(s, m)
  \/ HandlerSteps(1..2, {TRUE})
  \/ wait_for_lottery_completion(3)
  \/ \E agency \in 0..1 : waited_get_winners_for_agency(3, agency)

SpecWaiter == Init /\ [][NextWaiter]_vars

\* two connections whose clients send frames of every kind, those the server
\* does not handle and those the decoder does not know included; one batch is
\* offered and the store may fail
AllKinds ==
  {MsgRegisterBets(<<BetA1, BetA1w>>), MsgAllBetsSent, MsgRequestWinners, MsgAck, MsgOther}

NextAllKinds ==
  \/ \E s \in 1..2 : accept_new_connection(s)
  \/ \E s \in 1..2, m \in AllKinds : receive_message(s, m)
  \/ \E s \in 1..2 : receive_unknown(s)
  \/ \E s \in 1..2 : receive_fail(s)
  \/ \E s \in 1..2 : ack_has_lottery_occurred(s)
  \/ \E s \in 1..2 : send_register_bets_failed(s)
  \/ HandlerSteps(1..2, BOOLEAN)

SpecAllKinds == Init /\ [][NextAllKinds]_vars

\* __receive_all called on its own: any stream of at most MaxWire bytes, after
\* which the peer closes, and any size asked for
WireBytes == {0, 255}

BoundedSeq(S, n) == UNION {[1..k -> S] : k \in 0..n}

InitReceiveAll ==
  /\ InitServer
  /\ InitMain
  /\ wire \in BoundedSeq(WireBytes, MaxWire)
  /\ pos = 0
  /\ n_bytes \in 0..(MaxWire + 1)
  /\ data = <<>>
  /\ io_pc = "receive_all"
  /\ io_ret = "caller"
  /\ header = <<>>
  /\ encoded = NoMessage
  /\ decoded = NoMessage
  /\ stream = <<>>
  /\ received = <<>>

NextReceiveAll ==
  \/ \E c \in 1..MaxWire : recv(c)
  \/ recv_disconnected
  \/ receive_all_return

SpecReceiveAll == InitReceiveAll /\ [][NextReceiveAll]_vars

\* Socket.__decode_message reading what Socket.send_message wrote: the
\* messages messages.py can encode, with one or two bets
CodecBets ==
  { WireBet(1, <<74, 111>>, <<80, 101, 241, 97>>, 30904465, 946684800, LOTTERY_WINNER_NUMBER),
    WireBet(2, <<65>>, <<>>, 111, -1, 7777),
    WireBet(0, <<>>, <<66>>, 0, 0, 0) }

CodecMessages ==
  { MsgRegisterBets(<<b>>) : b \in CodecBets }
  \cup { MsgRegisterBets(<<a, b>>) : a, b \in CodecBets }
  \cup { MsgRegisterBetOk, MsgAck }
  \cup { MsgRegisterBetFailed(c) : c \in {FAILURE_UNKNOWN_MESSAGE, FAILURE_COULD_NOT_PROCESS_BET} }

\* a frame as __decode_message reads it: msg_type, the length of the payload
\* in 8 bytes, the payload
Frame(msg_type, payload) ==
  to_bytes(msg_type, SIZEOF_UINT16) \o to_bytes(Len(payload), SIZEOF_UINT64) \o payload

\* frames of that layout a peer may write, of every msg_type of the
\* dispatch and of one it does not know
PeerFrames ==
  { Frame(MSG_TYPE_REGISTER_BET, SubSeq(StandardBet_to_bytes(b), SIZEOF_UINT32 + 1,
                                        Len(StandardBet_to_bytes(b)))) : b \in CodecBets }
  \cup { Frame(MSG_TYPE_REGISTER_BET_OK, to_bytes(111, SIZEOF_UINT32) \o to_bytes(7777, SIZEOF_UINT32)),
         Frame(MSG_TYPE_REGISTER_BET_FAILED,
               to_bytes(111, SIZEOF_UINT32) \o to_bytes(7777, SIZEOF_UINT32)
               \o to_bytes(FAILURE_COULD_NOT_PROCESS_BET, SIZEOF_UINT16)),
         Frame(MSG_TYPE_ACK, <<>>),
         Frame(MSG_TYPE_REGISTER_BET, <<0, 0, 0, 1, 0, 0, 0, 1, 255>>) }

InitCodec ==
  /\ InitServer
  /\ InitMain
  /\ \/ /\ encoded \in CodecMessages
        /\ wire = Message_to_bytes(encoded)
     \/ /\ encoded = NoMessage
        /\ wire \in PeerFrames
  /\ pos = 0
  /\ n_bytes = SIZEOF_UINT16 + SIZEOF_UINT64
  /\ data = <<>>
  /\ io_pc = "receive_all"
  /\ io_ret = "header"
  /\ header = <<>>
  /\ decoded = NoMessage
  /\ stream = <<>>
  /\ received = <<>>

SpecCodec == InitCodec /\ [][NextReceiveAll]_vars

\* Socket.receive_message called time after time on one connection: the
\* peer has written MaxStream messages back to back, either with the
\* encoders of messages.py or as frames of the layout __decode_message reads
MaxStream == 2

StreamMessages == CodecMessages \cup {MsgRegisterBets(<<>>)}

RECURSIVE stream_to_bytes(_)
stream_to_bytes(msgs) ==
  IF Len(msgs) = 0 THEN <<>>
  ELSE stream_to_bytes(SubSeq(msgs, 1, Len(msgs) - 1)) \o Message_to_bytes(msgs[Len(msgs)])

RECURSIVE Concat(_)
Concat(frames) ==
  IF Len(frames) = 0 THEN <<>>
  ELSE Concat(SubSeq(frames, 1, Len(frames) - 1)) \o frames[Len(frames)]

InitStream ==
  /\ InitServer
  /\ InitMain
  /\ \/ /\ stream \in [1..MaxStream -> StreamMessages]
        /\ wire = stream_to_bytes(stream)
     \/ /\ stream = <<>>
        /\ wire \in {Concat(f) : f \in [1..MaxStream -> PeerFrames]}
  /\ pos = 0
  /\ n_bytes = SIZEOF_UINT16 + SIZEOF_UINT64
  /\ data = <<>>
  /\ io_pc = "receive_all"
  /\ io_ret = "header"
  /\ header = <<>>
  /\ encoded = NoMessage
  /\ decoded = NoMessage
  /\ received = <<>>

NextStream ==
  \/ NextReceiveAll
  \/ decode_message

SpecStream == InitStream /\ [][NextStream]_vars

\* two connections with different port numbers whose clients send batches
\* with several winning bets of one agency, in any order and more than once;
\* the store does not fail
BetA1x == StandardBet(1, 444, LOTTERY_WINNER_NUMBER)

WinnerBatches == { <<BetA1x, BetA1, BetA1w>>, <<BetA1w>>, <<BetA2, BetA1>> }

WinnerMessages ==
  { MsgRegisterBets(bs) : bs \in WinnerBatches } \cup {MsgAllBetsSent, MsgRequestWinners}

NextWinners ==
  \/ \E s \in 1..2 : accept_new_connection(s)
  \/ \E s \in 1..2, m \in WinnerMessages : receive_message(s, m)
  \/ HandlerSteps(1..2, {TRUE})

SpecWinners == Init /\ [][NextWinners]_vars

\* two connections with different port numbers whose clients send batches
\* and AllBetsSent in any order; the store writes a batch one bet at a time
StoreStepsMessages ==
  {MsgRegisterBets(<<BetA1, BetA1w>>), MsgRegisterBets(<<BetA0>>), MsgAllBetsSent}

StoreStepsHandler(s) ==
  \/ rb_set_readiness(s)
  \/ rb_set_agency_id(s)
  \/ store_bets_enter(s)
  \/ store_bets_append(s)
  \/ store_bets_return(s)
  \/ process_batch_reply(s)
  \/ abs_set_readiness(s)
  \/ abs_all_agencies_ready(s)
  \/ execute_lottery_enter(s)
  \/ execute_lottery_locked(s)
  \/ execute_lottery_set_event(s)
  \/ sw_get_readiness(s)

NextStoreSteps ==
  \/ \E s \in 1..2 : accept_new_connection(s)
  \/ \E s \in 1..2, m \in StoreStepsMessages : receive_message(s, m)
  \/ \E s \in 1..2 : StoreStepsHandler(s)

SpecStoreSteps == Init /\ [][NextStoreSteps]_vars

\* two connections with different port numbers, the clients of which send
\* one batch, AllBetsSent and RequestWinners in any order; load_bets may
\* raise when the lottery is executed; the store does not fail
LoadFailsMessages ==
  {MsgRegisterBets(<<BetA1, BetA1w>>), MsgAllBetsSent, MsgRequestWinners}

NextLoadFails ==
  \/ \E s \in 1..2 : accept_new_connection(s)
  \/ \E s \in 1..2, m \in LoadFailsMessages : receive_message(s, m)
  \/ \E s \in 1..2 : execute_lottery_load_raises(s)
  \/ HandlerSteps(1..2, {TRUE})

SpecLoadFails == Init /\ [][NextLoadFails]_vars

\* two connections with different port numbers, the clients of which send
\* one batch, a RegisterBets without bets, AllBetsSent and RequestWinners in
\* any order; the store does not fail
NextEmptyBatch ==
  \/ \E s \in 1..2 : accept_new_connection(s)
  \/ \E s \in 1..2, m \in LoadFailsMessages : receive_message(s, m)
  \/ \E s \in 1..2 : receive_register_bets_empty(s)
  \/ HandlerSteps(1..2, {TRUE})

SpecEmptyBatch == Init /\ [][NextEmptyBatch]_vars

\* the process from its start: the configuration or the bind may fail; two
\* connections, whose clients send the batch of their agency, AllBetsSent
\* and RequestWinners; a termination signal may arrive at any moment
InitLifecycle ==
  /\ InitServer
  /\ InitIo
  /\ main_pc = "main"
  /\ running = FALSE
  /\ stopped = FALSE
  /\ listener = "none"
  /\ sigterm = {}
  /\ startup_error = "none"
  /\ exit_code = None
  /\ waiting_at_stop = {}

LifecycleMessages(s) ==
  {MsgRegisterBets(IF s = 1 THEN <<BetA1, BetA1w>> ELSE <<BetA2>>), MsgAllBetsSent,
   MsgRequestWinners}

NextLifecycle ==
  \/ \E ok \in BOOLEAN : initialize_config(ok)
  \/ \E ok \in BOOLEAN : server_init(ok)
  \/ run_start
  \/ stop
  \/ run_return
  \/ \E s \in 1..2 : handle_sigterm(s)
  \/ \E s \in 1..2 : handle_sigterm_in_store_bets(s)
  \/ \E s \in 1..2 : accept_new_connection(s)
  \/ \E s \in 1..2 : \E m \in LifecycleMessages(s) : receive_message(s, m)
  \/ \E s \in 1..2 : receive_fail(s)
  \/ HandlerSteps(1..2, {TRUE})

SpecLifecycle == InitLifecycle /\ [][NextLifecycle]_vars

\* number_of_agencies connections with different port numbers whose clients
\* send RegisterBets one or more times and then AllBetsSent, and nothing
\* else; no read and no store fails.
\* messages the client of s still has to send to finish that script
Need(s) == CASE script[s] = "start" -> 2 [] script[s] = "bets" -> 1 [] OTHER -> 0

RECURSIVE NeedOfOthers(_, _)
NeedOfOthers(SS, s) ==
  IF SS = {} THEN 0
  ELSE LET t == CHOOSE x \in SS : TRUE
       IN (IF t = s THEN 0 ELSE Need(t)) + NeedOfOthers(SS \ {t}, s)

\* the batch of the agency of connection s
ScriptBatch(s) == IF s = 2 THEN <<BetA2>> ELSE <<BetA1, BetA1w>>

\* the client of s sends the next message of the script; a further batch is
\* sent only if the bounds leave room for the rest of every script
ScriptedReceive(SS, s, max_msgs, max_batches) ==
  \/ /\ script[s] \in {"start", "bets"}
     /\ nmsgs + 2 + NeedOfOthers(SS, s) <= max_msgs
     /\ nbatches + 1 + Cardinality({t \in SS \ {s} : script[t] = "start"}) <= max_batches
     /\ receive_message_within(s, MsgRegisterBets(ScriptBatch(s)), max_msgs, max_batches)
  \/ /\ script[s] = "bets"
     /\ receive_message_within(s, MsgAllBetsSent, max_msgs, max_batches)

\* the steps of the handler of s in the branches of MsgRegisterBets and
\* MsgAllBetsSent (the endpoint is never AGENCY_WAITING_FOR_LOTTERY, so
\* __send_winners_to_client stops at its test)
ScriptedHandlerSteps(s) ==
  \/ rb_set_readiness(s)
  \/ rb_set_agency_id(s)
  \/ store_bets_enter(s)
  \/ store_bets_locked(s, TRUE)
  \/ process_batch_reply(s)
  \/ abs_set_readiness(s)
  \/ abs_all_agencies_ready(s)
  \/ execute_lottery_enter(s)
  \/ execute_lottery_locked(s)
  \/ execute_lottery_set_event(s)
  \/ sw_get_readiness(s)

ScriptedStep(s) ==
  \/ accept_new_connection(s)
  \/ ScriptedReceive(1..max_agencies, s, MaxMsgs, MaxBatches)
  \/ ScriptedHandlerSteps(s)

NextScripted == \E s \in 1..max_agencies : ScriptedStep(s)

\* fair scheduling: a process that can take a step eventually takes one, and
\* a client eventually sends the next message of its script
FairScripted == \A s \in 1..max_agencies : WF_vars(ScriptedStep(s))

SpecScripted == Init /\ [][NextScripted]_vars /\ FairScripted

\* a connection (2) whose client sends anything and whose read then fails,
\* and, after that session has terminated, number_of_agencies other
\* connections (1 and 3) whose clients send RegisterBets and then AllBetsSent
Orphan == 2
Others == {1, 3}

\* messages the scripts of the other connections take in all
ScriptsLength == 2 * Cardinality(Others)

OrphanStep ==
  \/ accept_new_connection(Orphan)
  \/ \E m \in ClientMessages :
       /\ nmsgs + 1 + ScriptsLength <= MaxOrphanMsgs
       /\ m.type = "RegisterBets" => nbatches + 1 + Cardinality(Others) <= MaxOrphanBatches
       /\ receive_message_within(Orphan, m, MaxOrphanMsgs, MaxOrphanBatches)
  \/ receive_fail(Orphan)
  \/ ScriptedHandlerSteps(Orphan)
  \/ rw_set_readiness(Orphan)
  \/ rw_has_lottery_occurred(Orphan)
  \/ rw_get_agency_id(Orphan)

OtherStep(s) ==
  \/ accept_new_connection(s)
  \/ /\ pc[Orphan] = "closed"
     /\ ScriptedReceive(Others, s, MaxOrphanMsgs, MaxOrphanBatches)
  \/ ScriptedHandlerSteps(s)

NextOrphan == OrphanStep \/ \E s \in Others : OtherStep(s)

FairOrphan == WF_vars(OrphanStep) /\ \A s \in Others : WF_vars(OtherStep(s))

SpecOrphan == Init /\ [][NextOrphan]_vars /\ FairOrphan

\* ---------------------------------------------------------------------
\* Properties
\* ---------------------------------------------------------------------
Quiescent == \A s \in Sessions : pc[s] \in {"idle", "recv", "closed"}

InformCount(s) ==
  Cardinality({i \in 1..Len(sent[s]) : sent[s][i].type = "InformWinners"})

\* handler processes inside a call of execute_lottery
InExecuteLottery ==
  {s \in Sessions : pc[s] \in {"execute_lottery_locked", "execute_lottery_set_event"}}

\* C1: of the calls of execute_lottery at most one returns True, and once
\* every call made has returned (at least one was made) exactly one has
\* returned True and all the others False.
C1_ExactlyOneExecutes ==
  /\ exec_true <= 1
  /\ (InExecuteLottery = {} /\ exec_true + exec_false >= 1) => exec_true = 1

\* two calls overlapped: one call has returned False while the call that
\* latched the flag is still inside execute_lottery
C1_Witness ==
  /\ exec_false >= 1
  /\ \E s \in Sessions : pc[s] = "execute_lottery_set_event"

\* C2: at most one InformWinners is sent on a connection.
C2_AtMostOneInformWinners == \A s \in Sessions : InformCount(s) <= 1

\* a session that is reading its next message with its endpoint left in
\* WaitingForLottery and an agency (non-zero) bound by its own RegisterBets
Waiting(s) ==
  /\ pc[s] = "recv"
  /\ get_readiness(port(s)) = AGENCY_WAITING_FOR_LOTTERY
  /\ Truthy(own_agency[s])

\* C3: a session whose RequestWinners arrived before the lottery is sent
\* InformWinners once the lottery has executed, without a further message
\* from its client: whenever the lottery is complete and no handler is
\* running, no session is left waiting without its InformWinners.
C3_WaiterIsInformed ==
  (Quiescent /\ lottery_complete_event) =>
    \A s \in Sessions : Waiting(s) => InformCount(s) = 1

RECURSIVE TotalSent(_)
TotalSent(n) == IF n = 0 THEN 0 ELSE Len(sent[n]) + TotalSent(n - 1)

IsBatchReply(m) ==
  \/ m = MsgRegisterBetOk
  \/ m = MsgRegisterBetFailed(FAILURE_COULD_NOT_PROCESS_BET)

InSendWinners ==
  {"sw_get_readiness", "sw_get_agency_id", "sw_get_winners", "sw_inform_winners",
   "sw_set_readiness"}

\* C5: when the handler of a RequestWinners that found the lottery executed
\* returns, on a connection that bound an agency id by an earlier
\* RegisterBets, it has just sent InformWinners and set the readiness to
\* GotWinners.
C5_RequestAfterLotteryIsAnswered ==
  [][\A s \in Sessions :
       (/\ msg[s].type = "RequestWinners"
        /\ own_agency[s] # None
        /\ pc[s] \in InSendWinners
        /\ pc'[s] = "recv")
       => /\ pc[s] = "sw_set_readiness"
          /\ sent[s] # <<>>
          /\ sent[s][Len(sent[s])].type = "InformWinners"
          /\ get_readiness(port(s))' = AGENCY_GOT_LOTTERY_WINNERS]_vars

\* C6: an InformWinners sent on a connection that bound an agency id carries
\* the winners of that agency.
C6_WinnersOfOwnAgency ==
  \A s \in Sessions :
    (pc[s] = "sw_set_readiness" /\ own_agency[s] # None) =>
      sent[s][Len(sent[s])].winners = get_winners_for_agency(own_agency[s])

Elems(seq) == {seq[i] : i \in 1..Len(seq)}

\* C7: after the lottery, the document of every stored winning bet is in the
\* winners of its agency, and every winner of an agency is the document of a
\* stored winning bet of that agency.
C7_WinnersPartition ==
  lottery_complete_event =>
    /\ \A i \in 1..Len(bets_file) :
         has_won(bets_file[i]) =>
           int(bets_file[i].document)
             \in Elems(get_winners_for_agency(int(bets_file[i].agency)))
    /\ \A a \in DOMAIN winners_per_agency : \A d \in Elems(winners_per_agency[a]) :
         \E i \in 1..Len(bets_file) :
           /\ int(bets_file[i].agency) = a
           /\ int(bets_file[i].document) = d
           /\ has_won(bets_file[i])

\* C8: the lottery is executed only when at least number_of_agencies
\* endpoints have sent AllBetsSent.
C8_LotteryAfterAllBetsSent ==
  lottery_executed => Cardinality(all_bets_sent) >= max_agencies

\* C9: every bet acknowledged with RegisterBetsOk was in the store when the
\* lottery loaded the bets.
C9_AckedBetsAreEvaluated ==
  scanned # None => \A i \in acked : i <= scanned

\* C10: the readiness of an endpoint never decreases in the order
\* SendingBets < ReadyForLottery < WaitingForLottery < GotWinners.
C10_ReadinessMonotone ==
  [][\A p \in DOMAIN readiness_status :
       readiness_status'[p] >= readiness_status[p]]_vars

\* the winners index the executor computes from the bets load_bets returned
ComputedWinnersIndex ==
  IF scanned = None THEN EmptyDict
  ELSE ComputeWinners(SubSeq(bets_file, 1, scanned), 1, <<>>, EmptyDict).winners_per_agency

\* C11: once wait_for_lottery_completion has returned to a process, the
\* lottery has occurred and the winners index holds what the executor
\* computes, and the winners of an agency the process read after the return
\* are those of the computed index.
C11_WaitReturnsAfterWinners ==
  \A s \in Sessions :
    /\ pc[s] \in {"waited", "waited_read"} =>
         /\ has_lottery_occurred
         /\ scanned # None
         /\ winners_per_agency = ComputedWinnersIndex
    /\ pc[s] = "waited_read" =>
         dni_winners[s] = DictGet(ComputedWinnersIndex, agencyId[s], <<>>)

\* a process has waited and then read the winners of an agency that has one
C11_Witness ==
  \E s \in Sessions : pc[s] = "waited_read" /\ dni_winners[s] # <<>>

\* the winners index holds everything the executor computes
WinnersIndexPopulated == scanned # None /\ winners_per_agency = ComputedWinnersIndex

LastSent(s) == sent[s][Len(sent[s])]

\* C13: a session that ended on a frame of unknown msg_type was sent
\* RegisterBetsFailed with error_code 1 as its last message.
C13_UnknownFrameIsAnswered ==
  \A s \in Sessions :
    (pc[s] = "closed" /\ last_read[s] = "unknown") =>
      /\ sent[s] # <<>>
      /\ LastSent(s) = MsgRegisterBetFailed(FAILURE_UNKNOWN_MESSAGE)

\* the batches of a connection that were stored
StoredBatches(s) == {k \in 1..Len(batch_log[s]) : batch_log[s][k].stored = "yes"}

RECURSIVE StoredBetsUpTo(_, _)
StoredBetsUpTo(s, k) ==
  IF k = 0 THEN 0
  ELSE StoredBetsUpTo(s, k - 1)
         + (IF k \in StoredBatches(s) THEN Len(batch_log[s][k].bets) ELSE 0)

RECURSIVE StoredBetsOfSessions(_)
StoredBetsOfSessions(n) ==
  IF n = 0 THEN 0
  ELSE StoredBetsOfSessions(n - 1) + StoredBetsUpTo(n, Len(batch_log[n]))

\* the store holds the bets of the batches whose store succeeded and no other
StoreHoldsStoredBatches ==
  /\ Len(bets_file) = StoredBetsOfSessions(MaxSessions)
  /\ \A i \in 1..Len(bets_file) :
       \E s \in Sessions : \E k \in StoredBatches(s) :
         bets_file[i] \in {to_utility_bet(b) : b \in Elems(batch_log[s][k].bets)}

\* C14: a batch whose store fails leaves the store as it was and is answered
\* with RegisterBetsFailed(2), after which the session reads its next
\* message; the store holds only the bets of the batches that were stored,
\* and the winners of the lottery are computed from those.
C14_FailedBatchLeavesNoTrace ==
  /\ [](StoreHoldsStoredBatches
        /\ (lottery_complete_event => winners_per_agency = ComputedWinnersIndex))
  /\ [][\A s \in Sessions :
          /\ (pc[s] = "store_bets_locked" /\ pc'[s] # pc[s] /\ ~storing_success'[s])
               => bets_file' = bets_file
          /\ (pc[s] = "process_batch_reply" /\ pc'[s] # pc[s] /\ ~storing_success[s])
               => /\ sent'[s] = Append(sent[s],
                                       MsgRegisterBetFailed(FAILURE_COULD_NOT_PROCESS_BET))
                  /\ pc'[s] = "recv"
                  /\ keep_handling_client'[s] = CONTINUE
                  /\ bets_file' = bets_file]_vars

\* a batch failed, its retry was stored, and the lottery that ran afterwards
\* found the winner of the retried batch once
C14_Witness ==
  \E s \in Sessions :
    /\ Len(batch_log[s]) = 2
    /\ batch_log[s][1].stored = "no"
    /\ batch_log[s][2].stored = "yes"
    /\ batch_log[s][1].bets = batch_log[s][2].bets
    /\ lottery_complete_event
    /\ scanned = Len(bets_file)
    /\ Len(get_winners_for_agency(batch_log[s][2].bets[1].agency)) = 1

\* the replies to RegisterBets sent on a connection, in order
BatchReplies(s) == SelectSeq(sent[s], IsBatchReply)

\* the handler of a RegisterBets is running and has not replied yet
InRegisterBets(s) ==
  pc[s] \in {"rb_set_readiness", "rb_set_agency_id", "store_bets", "store_bets_locked",
             "process_batch_reply"}

\* C15: on every connection the replies to RegisterBets follow the order in
\* which the batches were read: every batch but the one being handled has
\* exactly one reply, the k-th reply is RegisterBetsOk when the store of the
\* k-th batch succeeded and RegisterBetsFailed(2) when it failed, and the
\* batch being handled is the last one read.
C15_RepliesInArrivalOrder ==
  \A s \in Sessions :
    /\ Len(BatchReplies(s)) = Len(batch_log[s]) - (IF InRegisterBets(s) THEN 1 ELSE 0)
    /\ \A k \in 1..Len(BatchReplies(s)) :
         BatchReplies(s)[k] = IF batch_log[s][k].stored = "yes" THEN MsgRegisterBetOk
                              ELSE MsgRegisterBetFailed(FAILURE_COULD_NOT_PROCESS_BET)
    /\ \A k \in 1..Len(BatchReplies(s)) : batch_log[s][k].stored # "pending"
    /\ InRegisterBets(s) => msg[s].bets = batch_log[s][Len(batch_log[s])].bets

\* a connection sent two different batches, the store of the first failed
\* and that of the second succeeded, and both replies were sent
C15_Witness ==
  \E s \in Sessions :
    /\ pc[s] = "recv"
    /\ Len(batch_log[s]) = 2
    /\ batch_log[s][1].bets # batch_log[s][2].bets
    /\ sent[s] = <<MsgRegisterBetFailed(FAILURE_COULD_NOT_PROCESS_BET), MsgRegisterBetOk>>

\* C16: while an Ack or an AllBetsSent is handled nothing is sent on its
\* connection except, for AllBetsSent, InformWinners; and the handler of Ack
\* changes neither the monitor nor the store.
C16_NoReplyToAckOrAllBetsSent ==
  [][\A s \in Sessions :
       /\ (msg[s].type \in {"Ack", "AllBetsSent"} /\ sent'[s] # sent[s]) =>
            /\ msg[s].type = "AllBetsSent"
            /\ Len(sent'[s]) = Len(sent[s]) + 1
            /\ SubSeq(sent'[s], 1, Len(sent[s])) = sent[s]
            /\ sent'[s][Len(sent'[s])].type = "InformWinners"
       /\ (pc[s] = "ack_has_lottery_occurred" /\ pc'[s] # pc[s]) =>
            /\ sent' = sent
            /\ monVars' = monVars
            /\ bets_file' = bets_file]_vars

\* the handler of an AllBetsSent has just sent InformWinners, and on another
\* connection an Ack was handled after the lottery without anything sent
C16_Witness ==
  \E s, t \in Sessions :
    /\ pc[s] = "sw_set_readiness"
    /\ msg[s].type = "AllBetsSent"
    /\ pc[t] = "recv"
    /\ last_read[t] = "Ack"
    /\ keep_handling_client[t] = CONTINUE_SAFE_TO_END
    /\ \A i \in 1..Len(sent[t]) : sent[t][i].type # "Ack"

\* C18: __receive_all called for n_bytes returns exactly the next n_bytes
\* bytes of the stream, in order, whatever the sizes of the reads, or raises
\* when the peer closed before n_bytes bytes were accumulated; while it runs
\* it holds a prefix of the stream no longer than n_bytes.
C18_ReceiveAllExact ==
  io_ret = "caller" =>
    /\ io_pc = "returned" =>
         /\ Len(data) = n_bytes
         /\ data = SubSeq(wire, 1, n_bytes)
    /\ io_pc = "raised" =>
         /\ Len(data) < n_bytes
         /\ pos = Len(wire)
    /\ io_pc = "receive_all" =>
         /\ Len(data) <= n_bytes
         /\ data = SubSeq(wire, 1, pos)

\* three bytes were asked for and returned, and a byte is left in the stream
C18_Witness ==
  /\ io_ret = "caller"
  /\ io_pc = "returned"
  /\ n_bytes = 3
  /\ Len(wire) = 4
  /\ pos = 3

\* C17: when __decode_message has read the bytes send_message wrote for a
\* message m, it has returned m.
C17_RoundTrip ==
  (encoded # NoMessage /\ io_pc \in {"returned", "raised"}) => decoded = encoded

\* a frame of the layout __decode_message reads is decoded field by field
C17_PeerFrameDecoded ==
  (encoded = NoMessage /\ io_ret = "payload" /\ io_pc = "returned"
     /\ from_bytes(Slice(header, 0, SIZEOF_UINT16)) = MSG_TYPE_REGISTER_BET)
  => \E b \in CodecBets : decoded = [type |-> "RegisterBet"] @@ b

\* the decoder stopped on the encoding of a message
C17_Decoded ==
  encoded # NoMessage /\ io_pc \in {"returned", "raised"}

\* the decoder returned a message to the caller
C17_Returned ==
  io_ret = "payload" /\ io_pc = "returned"

\* C20: the process exits with 0 on clean termination and with a non-zero
\* status when loading the configuration or binding the listening socket
\* failed.
C20_ExitCodes ==
  main_pc = "returned" =>
    /\ exit_code # None
    /\ (startup_error = "none" <=> exit_code = 0)

\* the half that holds: a process that got to its loop and was stopped exits
\* with 0
C20_CleanExitIsZero ==
  (main_pc = "returned" /\ startup_error = "none") => (stopped /\ exit_code = 0)

\* C19: once shutdown was requested while a session was waiting for the
\* lottery, the listener is closed, the acceptor loop is ending or has
\* ended, and no InformWinners is sent to any session any more.
C19_NoInformWinnersAfterStop ==
  [][ (stopped /\ waiting_at_stop # {}) =>
        /\ listener = "closed"
        /\ ~running
        /\ \A s \in Sessions : InformCount(s)' = InformCount(s) ]_vars

\* the part that holds: after the stop the listener is closed, the loop of
\* Server.run is over or can only end, and only handler processes that were
\* started are signalled
C19_ListenerClosedLoopEnds ==
  stopped =>
    /\ listener = "closed"
    /\ main_pc \in {"run", "accept", "returned"}
    /\ main_pc = "accept" => ~running
    /\ \A s \in sigterm : pc[s] # "idle"

\* no connection is accepted after the stop
C19_NoAcceptAfterStop ==
  [][ stopped => \A s \in Sessions : pc[s] = "idle" => pc'[s] = "idle" ]_vars

\* the stop ran while a session was waiting and another was about to send
\* InformWinners, which has not taken its signal yet; no store has failed
C19_SendPending ==
  /\ stopped
  /\ waiting_at_stop # {}
  /\ \E s \in sigterm : pc[s] = "sw_inform_winners"
  /\ \A s \in Sessions : \A k \in 1..Len(batch_log[s]) : batch_log[s][k].stored # "no"

\* every signal was delivered and a handler process is still reading from
\* its connection
C19_WorkerSurvives ==
  /\ stopped
  /\ sigterm = {}
  /\ main_pc = "returned"
  /\ \E s \in Sessions : pc[s] = "recv"

\* C21: a session whose handler returned CONTINUE_SAFE_TO_END reads no
\* further message from its connection.
C21_SafeToEndStopsReading ==
  [][ \A s \in Sessions :
        (pc[s] = "recv" /\ keep_handling_client[s] = CONTINUE_SAFE_TO_END)
          => msg'[s] = NoMsg ]_vars

\* what the loop does stop on: STOP, returned for a message it has no branch
\* for, closes the session
C21_StopEndsSession ==
  \A s \in Sessions : keep_handling_client[s] = STOP => pc[s] = "closed"

\* a step of session s writes to the monitor: set_readiness, set_agency_id
\* or store_bets
MonitorWriteBy(s) ==
  \/ pc[s] \in {"rb_set_readiness", "rb_set_agency_id", "abs_set_readiness",
                "rw_set_readiness", "sw_set_readiness", "store_bets_locked"}
     /\ pc'[s] # pc[s]

\* C22: once the readiness of a session's endpoint is
\* AGENCY_GOT_LOTTERY_WINNERS (the session was sent its winners), the session
\* makes no further write to the monitor.
C22_NoWriteAfterGotWinners ==
  [][ \A s \in Sessions :
        (get_readiness(port(s)) = AGENCY_GOT_LOTTERY_WINNERS /\ InformCount(s) >= 1)
          => ~MonitorWriteBy(s) ]_vars

\* C23: the agency id bound to an endpoint is never changed once set.
C23_AgencyBindingFixed ==
  [][ \A p \in DOMAIN agency_id_by_port :
        /\ p \in DOMAIN agency_id_by_port'
        /\ agency_id_by_port'[p] = agency_id_by_port[p] ]_vars

\* what holds: a binding is never removed, and it always is the agency of the
\* first bet of the last batch whose set_agency_id has run
C23_BindingNeverRemoved ==
  [][ DOMAIN agency_id_by_port \subseteq DOMAIN agency_id_by_port' ]_vars

\* all_agencies_ready as the claim states it: enough endpoints with an
\* agency binding, and no endpoint in the sending state
AllBoundAgenciesReady(expected_count, sending_state) ==
  /\ Cardinality(DOMAIN agency_id_by_port) >= expected_count
  /\ \A p \in DOMAIN readiness_status : readiness_status[p] # sending_state

\* C24: whenever a handler is about to call all_agencies_ready, its result is
\* true exactly when at least max_agencies endpoints have an agency binding
\* and no endpoint's readiness is AGENCY_SENDING_BETS.
C24_CountsBoundEndpoints ==
  (\E s \in Sessions : pc[s] = "abs_all_agencies_ready") =>
    ( all_agencies_ready(max_agencies, AGENCY_SENDING_BETS)
        <=> AllBoundAgenciesReady(max_agencies, AGENCY_SENDING_BETS) )

\* what holds: the result is true exactly when at least max_agencies
\* endpoints have a readiness entry and none of them is AGENCY_SENDING_BETS
C24_CountsReadinessEntries ==
  all_agencies_ready(max_agencies, AGENCY_SENDING_BETS)
    <=> /\ Cardinality(DOMAIN readiness_status) >= max_agencies
        /\ ~\E p \in DOMAIN readiness_status : readiness_status[p] = AGENCY_SENDING_BETS

\* the positions at which a process holds the monitor lock
LockedPositions == {"store_bets_locked", "execute_lottery_locked"}

\* the step with which the holder s of the lock leaves its critical section
ReleaseStep(s) == store_bets_locked(s, TRUE) \/ execute_lottery_locked(s)

\* C25: the event is set by a process that does not hold the lock; the lock
\* is held only inside store_bets and execute_lottery, never by a process
\* that waits for the event or has just been woken by it; and the holder of
\* the lock can always take the step that releases it, so a process blocked
\* on the lock is never blocked for ever.
C25_EventSetOutsideLock ==
  /\ [](lock # Unlocked => /\ pc[lock] \in LockedPositions
                           /\ ENABLED ReleaseStep(lock))
  /\ [][ \A s \in Sessions :
           (pc[s] = "execute_lottery_set_event" /\ pc'[s] # pc[s]) => lock # s ]_vars
  /\ [][ (~lottery_complete_event /\ lottery_complete_event') =>
           \E s \in Sessions : pc[s] = "execute_lottery_set_event" /\ lock # s ]_vars

\* a process woken by the event has to take the lock to read the winners
\* while another process holds it
C25_Witness ==
  /\ pc[3] = "waited"
  /\ lock \in 1..2
  /\ lottery_complete_event

\* C26: the flag lottery_executed, once set, is never cleared (so it goes
\* from false to true at most once), and the event, once set, stays set.
C26_FlagAndEventLatched ==
  [][ /\ lottery_executed => lottery_executed'
      /\ lottery_complete_event => lottery_complete_event' ]_vars

\* a later call of execute_lottery found the flag set, after the event had
\* been set, and both are still set
C26_Witness ==
  /\ exec_false >= 1
  /\ exec_true = 1
  /\ lottery_executed
  /\ lottery_complete_event

\* C27: the winners index is empty until the executing call of
\* execute_lottery scans the bets, it is written by that call only, inside
\* its critical section, and no step of any session changes it afterwards.
C27_IndexWrittenOnce ==
  /\ [](scanned = None => (winners_per_agency = EmptyDict /\ winners = <<>>))
  /\ [][ (winners_per_agency' # winners_per_agency \/ winners' # winners) =>
           /\ scanned = None
           /\ \E s \in Sessions : pc[s] = "execute_lottery_locked" /\ lock = s ]_vars
  /\ [][ scanned # None =>
           (winners_per_agency' = winners_per_agency /\ winners' = winners) ]_vars

\* the index holds winners, a later call of execute_lottery has returned
\* False, and a batch received after the lottery has been stored
C27_Witness ==
  /\ winners_per_agency # EmptyDict
  /\ exec_false >= 1
  /\ \E s \in Sessions : pc[s] = "process_batch_reply" /\ storing_success[s]

\* the step of session s is a read that failed with a transport error
ReceiveFailedBy(s) ==
  /\ pc[s] = "recv"
  /\ pc'[s] = "closed"
  /\ last_read'[s] = last_read[s]

\* C28: a read that fails with a transport error ends the session, and
\* leaves the monitor (readiness, agency bindings, winners, flag, event,
\* lock) and the bet store as they were, as well as what was sent.
C28_FailedReadHasNoEffect ==
  [][ \A s \in Sessions :
        ReceiveFailedBy(s) =>
          /\ monVars' = monVars
          /\ bets_file' = bets_file
          /\ sent' = sent
          /\ \A t \in Sessions \ {s} : pc'[t] = pc[t] ]_vars

\* a session ended on a failed read while its endpoint had a readiness entry
\* and an agency binding, which are still there
C28_Witness ==
  \E s \in Sessions :
    /\ pc[s] = "closed"
    /\ last_read[s] = "RegisterBets"
    /\ get_readiness(port(s)) = AGENCY_SENDING_BETS
    /\ Truthy(get_agency_id(port(s)))
    /\ bets_file # <<>>

C29_LotteryDespiteTerminatedSession ==
  []( (pc[Orphan] = "closed" /\ get_readiness(port(Orphan)) # None)
      => <>(lottery_executed /\ exec_true = 1) )

\* what holds: the lottery is eventually executed when the terminated session
\* left its endpoint in another state than AGENCY_SENDING_BETS
C29_LotteryUnlessLeftSending ==
  []( (pc[Orphan] = "closed"
       /\ get_readiness(port(Orphan)) \in {AGENCY_READY_FOR_LOTTERY, AGENCY_WAITING_FOR_LOTTERY})
      => <>(lottery_executed /\ exec_true = 1) )

\* the terminated session left its endpoint in AGENCY_SENDING_BETS, the other
\* sessions have finished their scripts, no handler is running and the
\* lottery has not been executed
C29_Stuck ==
  /\ pc[Orphan] = "closed"
  /\ get_readiness(port(Orphan)) = AGENCY_SENDING_BETS
  /\ \A s \in Others : script[s] = "done" /\ pc[s] = "recv"
  /\ ~lottery_executed

\* ---------------------------------------------------------------------
\* C31
\* ---------------------------------------------------------------------
\* the bytes of the first k messages of the stream
Consumed(k) == Len(stream_to_bytes(SubSeq(stream, 1, k)))

\* C31: whenever __decode_message has stopped on a stream of encoded
\* messages written back to back, it has returned the next message of the
\* stream and consumed exactly the bytes of the messages returned so far,
\* so that the messages returned are the messages written, in order.
C31_DecodesBackToBack ==
  (stream # <<>> /\ io_pc \in {"returned", "raised"} /\ Len(received) < Len(stream))
  => /\ io_pc = "returned"
     /\ decoded = stream[Len(received) + 1]
     /\ pos = Consumed(Len(received) + 1)
     /\ received = SubSeq(stream, 1, Len(received))

\* the header read alone takes more bytes than the first message has: the
\* 2 bytes of a reply without payload are followed by 8 bytes of the next
\* message, read as a length
C31_HeaderOverReads ==
  /\ stream # <<>>
  /\ Len(stream) = MaxStream
  /\ stream[1] = MsgRegisterBetOk
  /\ io_ret = "payload"
  /\ received = <<>>
  /\ pos > Consumed(1)

\* frames of the layout __decode_message reads are delimited by it: when a
\* frame has been returned, the bytes consumed are the 10 of its header and
\* the payload the header declares, counted from where the frame began
C31_FramesDelimited ==
  (stream = <<>> /\ io_ret = "payload" /\ io_pc = "returned")
  => \E f \in [1..MaxStream -> PeerFrames] :
       /\ wire = Concat(f)
       /\ pos = Len(Concat(SubSeq(f, 1, Len(received) + 1)))
       /\ Len(header) + n_bytes = Len(f[Len(received) + 1])

\* a second frame was returned after a first one
C31_SecondFrameReturned ==
  /\ stream = <<>>
  /\ Len(received) = 1
  /\ io_ret = "payload"
  /\ io_pc = "returned"

\* ---------------------------------------------------------------------
\* C32
\* ---------------------------------------------------------------------
\* the documents of the winning bets of agency a among bets, in their order
RECURSIVE WinningDocuments(_, _)
WinningDocuments(a, bets) ==
  IF Len(bets) = 0 THEN <<>>
  ELSE ( IF has_won(Head(bets)) /\ int(Head(bets).agency) = a
         THEN <<int(Head(bets).document)>> ELSE <<>> )
       \o WinningDocuments(a, Tail(bets))

\* the bets the scan of execute_lottery went over
ScannedBets == SubSeq(bets_file, 1, scanned)

\* C32: once execute_lottery has scanned the store, the winners of every
\* agency are the documents of the winning bets of that agency among the
\* bets scanned, one entry per bet, in the order of the store; and the list
\* a session reads for an InformWinners is that list.
C32_WinnersInScanOrder ==
  scanned # None =>
    /\ \A a \in 0..2 : get_winners_for_agency(a) = WinningDocuments(a, ScannedBets)
    /\ \A s \in Sessions :
         pc[s] = "sw_inform_winners" => dni_winners[s] = WinningDocuments(agencyId[s], ScannedBets)

\* two batches of agency 1 were scanned, the one with a single winner first:
\* the list read for the InformWinners has the three documents in the order
\* of the store, which is neither ascending nor descending
C32_Witness ==
  /\ scanned # None
  /\ \E s \in Sessions :
       /\ pc[s] = "sw_inform_winners"
       /\ agencyId[s] = 1
       /\ dni_winners[s] = <<333, 444, 333>>

\* ---------------------------------------------------------------------
\* C33
\* ---------------------------------------------------------------------
\* the batch of s is partly in the file
PartlyStored(s) ==
  /\ msg[s].type = "RegisterBets"
  /\ 0 < Cardinality(stored_at[s])
  /\ Cardinality(stored_at[s]) < Len(msg[s].bets)

\* C33: at most one process is inside store_bets or inside the scan of
\* execute_lottery, and it is the holder of the lock; a batch is partly in
\* the file only while its writer is inside store_bets; so at the moment of
\* the scan no batch is partly in the file, the bets a batch has in the
\* file are consecutive, and the scan has seen all of them or none.
C33_StoreOperationsExclusive ==
  /\ \A s, t \in Sessions :
       (pc[s] \in LockedPositions /\ pc[t] \in LockedPositions) => s = t
  /\ \A s \in Sessions : pc[s] \in LockedPositions => lock = s
  /\ \A s \in Sessions : PartlyStored(s) => pc[s] = "store_bets_locked"
  /\ \A s \in Sessions :
       pc[s] = "execute_lottery_locked" => \A t \in Sessions : ~PartlyStored(t)
  /\ \A s \in Sessions : \A i, j \in stored_at[s] : \A k \in i..j : k \in stored_at[s]
  /\ \A s \in Sessions :
       scanned # None =>
         \/ \A i \in stored_at[s] : i <= scanned
         \/ \A i \in stored_at[s] : i > scanned

\* a process has written the first bet of its batch and holds the lock while
\* another one, which found every agency ready, is at execute_lottery and
\* has to wait for it
C33_Witness ==
  \E s, t \in Sessions :
    /\ PartlyStored(s)
    /\ lock = s
    /\ pc[t] = "execute_lottery"
    /\ ~lottery_executed

\* ---------------------------------------------------------------------
\* C34
\* ---------------------------------------------------------------------
\* C34: the readiness entry and the agency binding of a connection's peer
\* are written by the session of that connection only: between two messages,
\* the binding is the agency the session bound last, and after an
\* AllBetsSent the readiness is the AGENCY_READY_FOR_LOTTERY the session
\* wrote, whatever the sessions of other peers have done.
C34_EntryWrittenByOwnerOnly ==
  \A s \in Sessions :
    pc[s] = "recv" =>
      /\ own_agency[s] # None => get_agency_id(port(s)) = own_agency[s]
      /\ last_read[s] = "AllBetsSent" => get_readiness(port(s)) = AGENCY_READY_FOR_LOTTERY

\* two connections from different hosts with the same port number: the
\* second has overwritten the binding and the readiness of the first
C34_Overwritten ==
  /\ pc[1] = "recv"
  /\ pc[3] # "idle"
  /\ peer[1][1] # peer[3][1]
  /\ port(1) = port(3)
  /\ last_read[1] = "AllBetsSent"
  /\ own_agency[1] = 1
  /\ get_agency_id(port(1)) = 2
  /\ get_readiness(port(1)) = AGENCY_SENDING_BETS

\* ---------------------------------------------------------------------
\* C35
\* ---------------------------------------------------------------------
\* C35: when execute_lottery has latched the flag and holds the lock for the
\* scan, no endpoint's readiness is AGENCY_SENDING_BETS.
C35_NoSendingWhenLatched ==
  \A s \in Sessions :
    pc[s] = "execute_lottery_locked" =>
      \A p \in DOMAIN readiness_status : readiness_status[p] # AGENCY_SENDING_BETS

\* between the all_agencies_ready() that returned True to a session and its
\* execute_lottery(), another session has written AGENCY_SENDING_BETS and is
\* about to store a batch
C35_SendingBetweenCheckAndLatch ==
  \E s, t \in Sessions :
    /\ s # t
    /\ pc[s] = "execute_lottery"
    /\ ~lottery_executed
    /\ pc[t] = "store_bets"
    /\ get_readiness(port(t)) = AGENCY_SENDING_BETS

\* ---------------------------------------------------------------------
\* C36
\* ---------------------------------------------------------------------
\* session s is in __send_winners_to_client after has_lottery_occurred()
\* returned True to it in the branch of MsgRequestWinners
SawLotteryOccurred(s) ==
  /\ last_read[s] = "RequestWinners"
  /\ pc[s] \in {"sw_get_readiness", "sw_get_agency_id", "sw_get_winners",
                "sw_inform_winners", "sw_set_readiness"}

\* C36: once has_lottery_occurred() has returned True to a
\* session, the scan has run and the winners index holds all it computes, and
\* the list the session then reads with get_winners_for_agency(a) is the
\* whole list of a: the documents of all the winning bets of a that were
\* scanned (load_bets does not fail).
C36_FinalListAfterFlagRead ==
  \A s \in Sessions :
    SawLotteryOccurred(s) =>
      /\ scanned # None
      /\ lock = Unlocked => winners_per_agency = ComputedWinnersIndex
      /\ pc[s] \in {"sw_inform_winners", "sw_set_readiness"} =>
           dni_winners[s] = WinningDocuments(agencyId[s], ScannedBets)

\* the process that latched the flag left execute_lottery without having
\* scanned the bets
ExecutorInterrupted ==
  /\ lottery_executed
  /\ scanned = None
  /\ \A t \in Sessions : pc[t] # "execute_lottery_locked"

\* the same holds whenever the process that latched the flag was not made to
\* leave the critical section of execute_lottery before it had scanned the
\* bets
C36_FinalListUnlessInterrupted ==
  \A s \in Sessions :
    (SawLotteryOccurred(s) /\ ~ExecutorInterrupted) =>
      /\ scanned # None
      /\ lock = Unlocked => winners_per_agency = ComputedWinnersIndex
      /\ pc[s] \in {"sw_inform_winners", "sw_set_readiness"} =>
           dni_winners[s] = WinningDocuments(agencyId[s], ScannedBets)

\* a session that asked for the winners after the lottery has read the
\* winner of its agency
C36_Witness ==
  \E s \in Sessions :
    /\ SawLotteryOccurred(s)
    /\ ~ExecutorInterrupted
    /\ pc[s] = "sw_inform_winners"
    /\ dni_winners[s] = <<333>>

\* the executor was terminated inside its critical section and a session
\* that then asked for the winners has read an empty list for an agency with
\* a winning bet in the store
C36_PartialListRead ==
  \E s \in Sessions :
    /\ SawLotteryOccurred(s)
    /\ ExecutorInterrupted
    /\ pc[s] = "sw_inform_winners"
    /\ dni_winners[s] = <<>>
    /\ WinningDocuments(agencyId[s], bets_file) # <<>>

\* ---------------------------------------------------------------------
\* C37
\* ---------------------------------------------------------------------
\* load_bets raises in the step of session s
LoadRaisesIn(s) == pc[s] = "execute_lottery_locked" /\ pc'[s] = "closed"

\* nothing of the lottery has been computed and the event is not set
NothingComputed ==
  /\ winners = <<>>
  /\ winners_per_agency = EmptyDict
  /\ scanned = None
  /\ ~lottery_complete_event
  /\ exec_true = 0

\* C37: when load_bets raises inside execute_lottery, the flag stays set and
\* the lock is released; from then on the flag stays set, no winner is ever
\* computed and the event is never set; and every later call of
\* execute_lottery returns False.
C37_FailedLoadLatchesForEver ==
  /\ [][ \A s \in Sessions :
           LoadRaisesIn(s) => (lottery_executed' /\ lock' = Unlocked /\ NothingComputed') ]_vars
  /\ [](ExecutorInterrupted => NothingComputed)
  /\ [][ ExecutorInterrupted => ExecutorInterrupted' ]_vars
  /\ [][ \A s \in Sessions :
           (ExecutorInterrupted /\ pc[s] = "execute_lottery" /\ pc'[s] # pc[s])
             => (pc'[s] = "sw_get_readiness" /\ exec_false' = exec_false + 1) ]_vars

\* load_bets raised with a winning bet in the store, and a later call of
\* execute_lottery, made when every agency was ready, has returned False
C37_Witness ==
  /\ ExecutorInterrupted
  /\ exec_false >= 1
  /\ WinningDocuments(1, bets_file) # <<>>

\* ---------------------------------------------------------------------
\* C38
\* ---------------------------------------------------------------------
\* the step in which session s reads a RegisterBets without bets
EmptyBatchReadBy(s) ==
  /\ pc[s] = "recv"
  /\ nmsgs' = nmsgs + 1
  /\ msg'[s].type = "RegisterBets"
  /\ Len(msg'[s].bets) = 0

\* C38: the step in which a session reads a RegisterBets without bets ends
\* the session with the connection closed, writes nothing to the monitor
\* (readiness, agency binding, store) and sends nothing; the session takes
\* no step afterwards.
C38_EmptyBatchEndsSession ==
  /\ [][ \A s \in Sessions :
           EmptyBatchReadBy(s) =>
             /\ pc'[s] = "closed"
             /\ readiness_status' = readiness_status
             /\ agency_id_by_port' = agency_id_by_port
             /\ bets_file' = bets_file
             /\ sent' = sent ]_vars
  /\ [](\A s \in Sessions :
          (msg[s].type = "RegisterBets" /\ Len(msg[s].bets) = 0) => pc[s] = "closed")

\* the first message of a connection was a RegisterBets without bets: the
\* session has ended, its endpoint has no readiness and no binding, nothing
\* was sent to it and nothing stored
C38_Witness ==
  \E s \in Sessions :
    /\ msg[s] = MsgRegisterBets(<<>>)
    /\ pc[s] = "closed"
    /\ get_readiness(port(s)) = None
    /\ get_agency_id(port(s)) = None
    /\ sent[s] = <<>>
    /\ bets_file = <<>>

\* a session that had stored a batch read a RegisterBets without bets: its
\* entries are as the batch left them and the only reply is the one to the
\* batch
C38_AfterBatch ==
  \E s \in Sessions :
    /\ msg[s] = MsgRegisterBets(<<>>)
    /\ pc[s] = "closed"
    /\ get_readiness(port(s)) = AGENCY_SENDING_BETS
    /\ sent[s] = <<MsgRegisterBetOk>>

====
